---------------------------- MODULE Spec2Model ----------------------------
(***************************************************************************)
(* A model of the polymarket-mm market-making engine: the order book, the  *)
(* event queue, the market maker's quote generator, the paper order        *)
(* manager, the strategy engine's position ledger and event loop, and the  *)
(* state persistence.  Prices, sizes and PnL are C++ doubles in the source; *)
(* here they are exact rationals [n |-> numerator, d |-> denominator], so   *)
(* every comparison, rounding and clamp is computed as the code computes   *)
(* it, without floating-point error.                                       *)
(***************************************************************************)
EXTENDS Integers, Naturals, Sequences, FiniteSets, TLC

(***************************************************************************)
(* Exact rational arithmetic (the model's stand-in for double).            *)
(***************************************************************************)
Abs(x) == IF x < 0 THEN -x ELSE x

RECURSIVE Gcd(_, _)
Gcd(a, b) == IF b = 0 THEN a ELSE Gcd(b, a % b)

Norm(n, d) ==
    LET s == IF d < 0 THEN -1 ELSE 1
        g == Gcd(Abs(n), Abs(d))
    IN  [n |-> (s * n) \div g, d |-> (s * d) \div g]

R(n, d) == Norm(n, d)
RInt(i) == [n |-> i, d |-> 1]
RZero == RInt(0)
ROne == RInt(1)
RAdd(a, b) ==
    LET g == Gcd(a.d, b.d)
    IN  Norm(a.n * (b.d \div g) + b.n * (a.d \div g), (a.d \div g) * b.d)
RNeg(a) == [n |-> -a.n, d |-> a.d]
RSub(a, b) == RAdd(a, RNeg(b))
RMul(a, b) ==
    LET g1 == Gcd(Abs(a.n), b.d)
        g2 == Gcd(Abs(b.n), a.d)
    IN  IF a.n = 0 \/ b.n = 0 THEN [n |-> 0, d |-> 1]
        ELSE [n |-> (a.n \div g1) * (b.n \div g2), d |-> (a.d \div g2) * (b.d \div g1)]
RInv(a) == IF a.n < 0 THEN [n |-> -a.d, d |-> -a.n] ELSE [n |-> a.d, d |-> a.n]
RDiv(a, b) == RMul(a, RInv(b))
RLt(a, b) ==
    LET g == Gcd(a.d, b.d)
    IN  a.n * (b.d \div g) < b.n * (a.d \div g)
RLe(a, b) ==
    LET g == Gcd(a.d, b.d)
    IN  a.n * (b.d \div g) <= b.n * (a.d \div g)
RGt(a, b) == RLt(b, a)
RGe(a, b) == RLe(b, a)
RAbs(a) == [n |-> Abs(a.n), d |-> a.d]
RMax(a, b) == IF RLt(a, b) THEN b ELSE a
RMin(a, b) == IF RLt(b, a) THEN b ELSE a
RIsInt(a) == a.d = 1
\* std::round: to the nearest integer, halves away from zero
RRound(a) ==
    LET m == (2 * Abs(a.n) + a.d) \div (2 * a.d)
    IN  IF a.n < 0 THEN -m ELSE m

(***************************************************************************)
(* Bounds of the model.                                                    *)
(***************************************************************************)
NumPrices == 3
MaxSize == 2

\* the price levels the feed delivers: NumPrices consecutive cents from 0.41
BookPrices == {R(40 + i, 100) : i \in 1..NumPrices}
BookSizes == 0..MaxSize

(***************************************************************************)
(* OrderBook: bids_ and asks_ are maps price -> size.  bids_ is ordered by  *)
(* std::greater, asks_ ascending, so begin() is the highest bid and the     *)
(* lowest ask.                                                             *)
(***************************************************************************)
EmptyBook == [bids |-> <<>>, asks |-> <<>>]

MapErase(m, k) == [x \in (DOMAIN m) \ {k} |-> m[x]]
MapPut(m, k, v) == [x \in (DOMAIN m) \cup {k} |-> IF x = k THEN v ELSE m[x]]

\* a plausible slip: the size-0 case stores the level instead of erasing it
LevelAfterUpdateKeepsZero(m, price, size) == MapPut(m, price, size)

LevelAfterUpdate(m, price, size) ==
    IF size = 0 THEN MapErase(m, price) ELSE MapPut(m, price, size)

updateBid(b, price, size) == [b EXCEPT !.bids = LevelAfterUpdate(b.bids, price, size)]
updateAsk(b, price, size) == [b EXCEPT !.asks = LevelAfterUpdate(b.asks, price, size)]
\* a plausible slip: only the bid side is cleared
clearBidsOnly(b) == [b EXCEPT !.bids = <<>>]

clear(b) == EmptyBook

MaxPrice(S) == CHOOSE p \in S : \A q \in S : RLe(q, p)
MinPrice(S) == CHOOSE p \in S : \A q \in S : RLe(p, q)

getBestBid(b) == IF DOMAIN b.bids # {} THEN MaxPrice(DOMAIN b.bids) ELSE RZero
getBestAsk(b) == IF DOMAIN b.asks # {} THEN MinPrice(DOMAIN b.asks) ELSE RZero
hasValidBBO(b) == DOMAIN b.bids # {} /\ DOMAIN b.asks # {}
getSpread(b) == IF ~hasValidBBO(b) THEN RZero ELSE RSub(getBestAsk(b), getBestBid(b))
getMid(b) == IF ~hasValidBBO(b) THEN RZero
             ELSE RDiv(RAdd(getBestBid(b), getBestAsk(b)), RInt(2))

\* sum of the sizes of the first `levels` levels from the best price on
RECURSIVE TopVolume(_, _, _)
TopVolume(m, levels, descending) ==
    IF DOMAIN m = {} THEN 0
    ELSE LET p == IF descending THEN MaxPrice(DOMAIN m) ELSE MinPrice(DOMAIN m)
         IN  IF levels <= 1 THEN m[p]
             ELSE m[p] + TopVolume(MapErase(m, p), levels - 1, descending)

DefaultLevels == 5
getTotalBidVolume(b) == TopVolume(b.bids, DefaultLevels, TRUE)
getTotalAskVolume(b) == TopVolume(b.asks, DefaultLevels, FALSE)
getImbalance(b) ==
    LET bid_vol == getTotalBidVolume(b)
        ask_vol == getTotalAskVolume(b)
        total == bid_vol + ask_vol
    IN  IF total = 0 THEN RZero ELSE R(bid_vol - ask_vol, total)

(***************************************************************************)
(* MarketMaker.                                                            *)
(***************************************************************************)
NoQuote == [none |-> TRUE]
IsQuote(q) == "bid_price" \in DOMAIN q

MinQuotePrice == R(1, 100)
MaxQuotePrice == R(99, 100)
MinMarketSpread == R(1, 100)
RiskAversion == R(1, 10)
InitialVolatility == R(5, 100)
MinVolatility == R(1, 100)
MaxVolatility == R(50, 100)
ImbalanceWeight == R(5, 1000)
BaseMinProfit == R(15, 1000)
ExitLossPct == R(-1, 100)
UrgencyCutoff == R(9, 10)
InventoryNorm == RInt(100)
MaxQuoteSize == RInt(100)
MinQuoteSize == RInt(10)

SecondsPerHour == 3600
UrgencyHorizonHours == 24

\* MarketMaker::MarketMaker
NewMarketMaker(spread_pct, max_position, t) ==
    [spread_pct |-> spread_pct, max_position |-> max_position,
     inventory |-> RZero, inventory_dollars |-> RZero, avg_cost |-> RZero,
     realized_pnl |-> RZero, volatility |-> InitialVolatility,
     last_mid |-> RZero, last_update_time |-> t,
     has_close_time |-> FALSE, market_close_time |-> 0]

\* std::chrono::duration_cast truncates toward zero
TruncDiv(a, b) == IF a >= 0 THEN a \div b ELSE -((-a) \div b)

roundToCent(price) == R(RRound(RMul(price, RInt(100))), 100)

ClipPrice(price) == RMax(MinQuotePrice, RMin(MaxQuotePrice, price))

setMarketCloseTime(mm, close_time) ==
    [mm EXCEPT !.market_close_time = close_time, !.has_close_time = TRUE]

getTimeUrgency(mm, t) ==
    IF ~mm.has_close_time THEN RZero
    ELSE LET hours_remaining == TruncDiv(mm.market_close_time - t, SecondsPerHour)
         IN  IF hours_remaining < 0 THEN ROne
             ELSE IF hours_remaining > UrgencyHorizonHours THEN RZero
             ELSE RSub(ROne, R(hours_remaining, UrgencyHorizonHours))

\* the profit the ask must keep over avg_cost (negative: the loss accepted)
MinProfitPct(mm, t) ==
    LET inventory_risk == RDiv(RAbs(mm.inventory_dollars), mm.max_position)
        urgency_factor == RMax(getTimeUrgency(mm, t), inventory_risk)
    IN  IF RGt(urgency_factor, UrgencyCutoff) THEN ExitLossPct
        ELSE RMul(BaseMinProfit, RSub(ROne, urgency_factor))

\* a plausible slip: the cost floor is left out
AskWithoutFloor(mm, our_ask, t) == our_ask

\* the time-aware cost floor applied to the rounded ask
AskAfterFloor(mm, our_ask, t) ==
    IF RGt(mm.inventory, RZero) /\ RGt(mm.avg_cost, RZero)
    THEN LET min_ask == RMul(mm.avg_cost, RAdd(ROne, MinProfitPct(mm, t)))
         IN  IF RLt(our_ask, min_ask) THEN min_ask ELSE our_ask
    ELSE our_ask

\* a plausible slip: the cross check compares with the wrong side of the book
CrossesMarketWrongSide(b, our_bid, our_ask) ==
    RGe(our_bid, getBestBid(b)) /\ RLe(our_ask, getBestAsk(b))

CrossesMarket(b, our_bid, our_ask) ==
    RGe(our_bid, getBestAsk(b)) \/ RLe(our_ask, getBestBid(b))

\* a plausible slip: only a crossed book counts as too tight
SpreadTooTightCrossedOnly(market_spread) == RLt(market_spread, RZero)

\* if (market_spread < 0.01)
SpreadTooTight(market_spread) == RLt(market_spread, MinMarketSpread)

\* MarketMaker::generateQuote after the volatility block: the quote, or NoQuote
QuoteFor(mm, b, t) ==
    LET mid == getMid(b)
        market_spread == getSpread(b)
        target_spread_dollars == RMul(mid, mm.spread_pct)
        q == RDiv(mm.inventory, InventoryNorm)
        sigma_sq == RMul(mm.volatility, mm.volatility)
        reservation_bid == RSub(mid, RMul(RMul(RAdd(q, ROne), RiskAversion), sigma_sq))
        reservation_ask == RAdd(mid, RMul(RMul(RSub(q, ROne), RiskAversion), sigma_sq))
        half == RDiv(target_spread_dollars, RInt(2))
        imbalance_adjustment == RMul(getImbalance(b), ImbalanceWeight)
        bid0 == roundToCent(RAdd(RSub(reservation_bid, half), imbalance_adjustment))
        ask0 == roundToCent(RAdd(RAdd(reservation_ask, half), imbalance_adjustment))
        ask1 == AskAfterFloor(mm, ask0, t)
        our_bid == ClipPrice(bid0)
        our_ask == ClipPrice(ask1)
        remaining_capacity == RSub(mm.max_position, RAbs(mm.inventory))
    IN  IF SpreadTooTight(market_spread) THEN NoQuote
        ELSE IF RLe(our_ask, our_bid) THEN NoQuote
        ELSE IF CrossesMarket(b, our_bid, our_ask) THEN NoQuote
        ELSE LET quote_size == RMin(MaxQuoteSize, RDiv(remaining_capacity, mid))
             IN  IF RLt(quote_size, MinQuoteSize) THEN NoQuote
                 ELSE [bid_price |-> our_bid, bid_size |-> quote_size,
                       ask_price |-> our_ask, ask_size |-> quote_size]

\* the values volatility_ can hold after updateVolatility: the EWMA of an
\* annualised return (a square root) clipped into [MinVolatility, MaxVolatility]
Volatilities == {MinVolatility, InitialVolatility, MaxVolatility}

\* generateQuote's volatility block: the update runs when a mid was recorded
\* and more than 0.1 s have passed (whole seconds here)
VolatilityOutcomes(mm, t) ==
    IF RGt(mm.last_mid, RZero) /\ t - mm.last_update_time > 0
    THEN Volatilities
    ELSE {mm.volatility}

\* the maker after generateQuote has recorded the mid and the time
AfterQuoteCall(mm, b, t, vol) ==
    [mm EXCEPT !.volatility = vol, !.last_mid = getMid(b), !.last_update_time = t]

\* MarketMaker::updateInventory
updateInventory(mm, side, filled_size, fill_price) ==
    IF side = "BUY"
    THEN LET inv == RAdd(mm.inventory, filled_size)
             dollars == RAdd(mm.inventory_dollars, RMul(filled_size, fill_price))
         IN  [mm EXCEPT !.inventory = inv, !.inventory_dollars = dollars,
                        !.avg_cost = IF RGt(inv, RZero) THEN RDiv(dollars, inv) ELSE @]
    ELSE LET old == mm.inventory
             inv == RSub(mm.inventory, filled_size)
             closing_size == RMin(filled_size, old)
             pnl == IF RGt(old, RZero)
                    THEN RMul(closing_size, RSub(fill_price, mm.avg_cost))
                    ELSE RZero
         IN  [mm EXCEPT
                !.inventory = inv,
                !.realized_pnl = RAdd(@, pnl),
                !.inventory_dollars =
                    IF RGt(inv, RZero) THEN RMul(inv, mm.avg_cost)
                    ELSE IF RLt(inv, RZero) THEN RMul(inv, fill_price)
                    ELSE RZero,
                !.avg_cost =
                    IF RGt(inv, RZero) THEN @
                    ELSE IF RLt(inv, RZero) THEN fill_price
                    ELSE RZero]

(***************************************************************************)
(* StrategyEngine::Position and StrategyEngine::updatePosition.            *)
(***************************************************************************)
UnsetTime == [set |-> FALSE, at |-> 0]
TimeAt(t) == [set |-> TRUE, at |-> t]

NewPosition ==
    [quantity |-> RZero, avg_entry_price |-> RZero, realized_pnl |-> RZero,
     opened_at |-> UnsetTime, last_updated |-> UnsetTime,
     entry_side |-> "BUY", num_fills |-> 0]

\* a plausible slip: the partial close books the PnL with the fill's own sign
PartialClosePnlFillSign(pos, signed_qty, price) ==
    RMul(signed_qty, RSub(price, pos.avg_entry_price))

\* PnL realised when the fill closes only part of the position
PartialClosePnl(pos, signed_qty, price) ==
    RMul(RNeg(signed_qty), RSub(price, pos.avg_entry_price))

updatePosition(pos, qty, price, side, t) ==
    LET signed_qty == IF side = "BUY" THEN qty ELSE RNeg(qty)
        was_flat == pos.quantity = RZero
        adding == \/ RGt(pos.quantity, RZero) /\ RGt(signed_qty, RZero)
                  \/ RLt(pos.quantity, RZero) /\ RLt(signed_qty, RZero)
        new_qty == RAdd(pos.quantity, signed_qty)
        p1 == IF adding
              THEN LET total_cost == RAdd(RMul(pos.quantity, pos.avg_entry_price),
                                          RMul(signed_qty, price))
                   IN  [pos EXCEPT !.quantity = new_qty,
                                   !.avg_entry_price = RDiv(total_cost, new_qty)]
              ELSE IF RGe(RAbs(signed_qty), RAbs(pos.quantity))
              THEN LET pnl == RMul(pos.quantity, RSub(price, pos.avg_entry_price))
                       closed == [pos EXCEPT !.realized_pnl = RAdd(@, pnl),
                                             !.quantity = new_qty,
                                             !.avg_entry_price = price]
                   IN  IF was_flat /\ new_qty # RZero
                       THEN [closed EXCEPT !.opened_at = TimeAt(t),
                                           !.entry_side = side,
                                           !.num_fills = 0]
                       ELSE closed
              ELSE [pos EXCEPT !.realized_pnl =
                                   RAdd(@, PartialClosePnl(pos, signed_qty, price)),
                               !.quantity = new_qty]
        p2 == IF was_flat /\ p1.quantity # RZero /\ ~p1.opened_at.set
              THEN [p1 EXCEPT !.opened_at = TimeAt(t), !.entry_side = side,
                              !.num_fills = 0]
              ELSE p1
    IN  [p2 EXCEPT !.last_updated = TimeAt(t), !.num_fills = @ + 1]

(***************************************************************************)
(* StatePersistence: TradingState written to and read from one JSON file.  *)
(* A JSON value is a tagged record; a time_point is a count of clock       *)
(* ticks, TicksPerSecond of them to the second, and a time_t is a count    *)
(* of whole seconds.                                                       *)
(***************************************************************************)
TicksPerSecond == 2

JNull == [t |-> "null", v |-> 0]
JInt(i) == [t |-> "int", v |-> i]
JFloat(x) == [t |-> "float", v |-> x]
JString(str) == [t |-> "string", v |-> str]
JObject(f) == [t |-> "object", v |-> f]
\* file content that is not JSON text (empty, truncated, garbage)
JInvalid == [t |-> "invalid", v |-> 0]

\* the keys a std::map of token ids iterates over, in its order
TokenIds == <<"T1", "T2">>

NewTradingState ==
    [positions |-> <<>>, total_realized_pnl |-> RZero, total_trades |-> 0,
     total_volume |-> RZero, last_session_id |-> "", last_updated |-> 0]

to_time_t(tp) == TruncDiv(tp, TicksPerSecond)
from_time_t(secs) == secs * TicksPerSecond

NoFile == [exists |-> FALSE, json |-> JNull]

PositionsJson(positions) ==
    IF DOMAIN positions = {} THEN JNull
    ELSE JObject([k \in DOMAIN positions |->
             JObject([quantity |-> JFloat(positions[k].quantity),
                      avg_cost |-> JFloat(positions[k].avg_cost),
                      realized_pnl |-> JFloat(positions[k].realized_pnl)])])

StateJson(state) ==
    JObject([last_session_id |-> JString(state.last_session_id),
             last_updated |-> JInt(to_time_t(state.last_updated)),
             total_trades |-> JInt(state.total_trades),
             total_volume |-> JFloat(state.total_volume),
             total_realized_pnl |-> JFloat(state.total_realized_pnl),
             positions |-> PositionsJson(state.positions)])

\* a plausible slip: the file is opened for update, so positions of the file
\* being replaced that the new state lacks stay in it
FileAfterMergingWrite(old, j) ==
    IF old.exists /\ old.json.t = "object" /\ old.json.v.positions.t = "object"
    THEN LET was == old.json.v.positions.v
             is == IF j.v.positions.t = "object" THEN j.v.positions.v ELSE <<>>
             merged == [k \in DOMAIN was \cup DOMAIN is |->
                           IF k \in DOMAIN is THEN is[k] ELSE was[k]]
         IN  [exists |-> TRUE,
              json |-> JObject([j.v EXCEPT !.positions = JObject(merged)])]
    ELSE [exists |-> TRUE, json |-> j]

\* std::ofstream file(state_file_) truncates, then the dump is written
FileAfterWrite(old, j) == [exists |-> TRUE, json |-> j]

\* basic_json::value(key, default) / get<T>(): the stored value converted to
\* the wanted type, the default when the key is absent, a type_error otherwise
JsonGet(obj, key, kind, default) ==
    IF key \notin DOMAIN obj THEN [thrown |-> FALSE, v |-> default]
    ELSE LET e == obj[key]
         IN  CASE kind = "string" /\ e.t = "string" -> [thrown |-> FALSE, v |-> e.v]
               [] kind = "int" /\ e.t = "int" -> [thrown |-> FALSE, v |-> e.v]
               [] kind = "int" /\ e.t = "float" ->
                      [thrown |-> FALSE, v |-> TruncDiv(e.v.n, e.v.d)]
               [] kind = "double" /\ e.t = "float" -> [thrown |-> FALSE, v |-> e.v]
               [] kind = "double" /\ e.t = "int" -> [thrown |-> FALSE, v |-> RInt(e.v)]
               [] OTHER -> [thrown |-> TRUE, v |-> default]

\* one entry of "positions" read into a PositionState
PositionFromJson(pj) ==
    IF pj.t # "object"
    THEN [thrown |-> TRUE, v |-> [quantity |-> RZero, avg_cost |-> RZero, realized_pnl |-> RZero]]
    ELSE LET q == JsonGet(pj.v, "quantity", "double", RZero)
             a == JsonGet(pj.v, "avg_cost", "double", RZero)
             r == JsonGet(pj.v, "realized_pnl", "double", RZero)
         IN  [thrown |-> q.thrown \/ a.thrown \/ r.thrown,
              v |-> [quantity |-> q.v, avg_cost |-> a.v, realized_pnl |-> r.v]]

\* the loop over j["positions"].items(): entries are read in key order until
\* one throws
PositionsFromJson(pj) ==
    IF pj.t = "null" THEN [thrown |-> FALSE, v |-> <<>>]
    ELSE IF pj.t # "object" THEN [thrown |-> TRUE, v |-> <<>>]
    ELSE LET keys == DOMAIN pj.v
             Bad(i) == TokenIds[i] \in keys /\ PositionFromJson(pj.v[TokenIds[i]]).thrown
             Before(i) == \A h \in 1..(i - 1) : ~Bad(h)
             read == {TokenIds[i] : i \in {h \in 1..Len(TokenIds) :
                                             TokenIds[h] \in keys /\ Before(h + 1)}}
         IN  [thrown |-> \E i \in 1..Len(TokenIds) : Bad(i),
              v |-> [k \in read |-> PositionFromJson(pj.v[k]).v]]

\* StatePersistence::loadState: an exception leaves what was read before it
loadState(file) ==
    IF ~file.exists \/ file.json.t # "object" THEN NewTradingState
    ELSE LET j == file.json.v
             g1 == JsonGet(j, "last_session_id", "string", "")
             g2 == JsonGet(j, "total_trades", "int", 0)
             g3 == JsonGet(j, "total_volume", "double", RZero)
             g4 == JsonGet(j, "total_realized_pnl", "double", RZero)
             g5 == JsonGet(j, "last_updated", "int", 0)
             g6 == IF "positions" \in DOMAIN j THEN PositionsFromJson(j.positions)
                   ELSE [thrown |-> FALSE, v |-> <<>>]
             t1 == g1.thrown
             t2 == t1 \/ g2.thrown
             t3 == t2 \/ g3.thrown
             t4 == t3 \/ g4.thrown
             t5 == t4 \/ g5.thrown
             s1 == IF t1 THEN NewTradingState
                   ELSE [NewTradingState EXCEPT !.last_session_id = g1.v]
             s2 == IF t2 THEN s1 ELSE [s1 EXCEPT !.total_trades = g2.v]
             s3 == IF t3 THEN s2 ELSE [s2 EXCEPT !.total_volume = g3.v]
             s4 == IF t4 THEN s3 ELSE [s3 EXCEPT !.total_realized_pnl = g4.v]
             s5 == IF t5 \/ "last_updated" \notin DOMAIN j THEN s4
                   ELSE [s4 EXCEPT !.last_updated = from_time_t(g5.v)]
         IN  IF t5 THEN s5 ELSE [s5 EXCEPT !.positions = g6.v]

(***************************************************************************)
(* OrderManager.  An order id "ORD_n" is the number n; orders_ and         *)
(* market_books_ are maps.                                                 *)
(***************************************************************************)
NewOrderManager(mode) ==
    [orders |-> <<>>, next_order_id |-> 1, trading_mode |-> mode, market_books |-> <<>>]

setTradingMode(om, mode) == [om EXCEPT !.trading_mode = mode]

placeOrder(om, token_id, side, price, size, t) ==
    LET order == [order_id |-> om.next_order_id, token_id |-> token_id, side |-> side,
                  price |-> price, size |-> size, filled_size |-> RZero,
                  status |-> "OPEN", created_at |-> t]
    IN  [om EXCEPT !.orders = MapPut(@, om.next_order_id, order),
                   !.next_order_id = @ + 1]

\* a plausible slip: the lookup is taken to succeed
cancelOrderFoundAlways(om, order_id) == TRUE

\* what cancelOrder returns
cancelOrderFound(om, order_id) == order_id \in DOMAIN om.orders

cancelOrder(om, order_id) ==
    IF ~cancelOrderFound(om, order_id) THEN om
    ELSE IF om.trading_mode = "PAPER"
    THEN [om EXCEPT !.orders = MapErase(@, order_id)]
    ELSE [om EXCEPT !.orders[order_id].status = "CANCELLED"]

RECURSIVE CancelEach(_, _)
CancelEach(om, ids) ==
    IF ids = {} THEN om
    ELSE LET id == CHOOSE i \in ids : TRUE
         IN  CancelEach(cancelOrder(om, id), ids \ {id})

\* a plausible slip: the token filter is left out of the collecting loop
cancelAllOrdersUnfiltered(om, token_id) == CancelEach(om, DOMAIN om.orders)

\* cancelAllOrders(token_id, market_id, reason)
cancelAllOrders(om, token_id) ==
    CancelEach(om, {id \in DOMAIN om.orders : om.orders[id].token_id = token_id})

\* cancelAllOrders(reason)
cancelAllOrdersGlobal(om) == CancelEach(om, DOMAIN om.orders)

\* a plausible slip: the crossing test is strict
ShouldFillStrict(order, b) ==
    IF order.side = "BUY"
    THEN RGt(getBestAsk(b), RZero) /\ RLt(getBestAsk(b), order.price)
    ELSE RGt(getBestBid(b), RZero) /\ RGt(getBestBid(b), order.price)

\* should_fill in checkForFills
ShouldFill(order, b) ==
    IF order.side = "BUY"
    THEN RGt(getBestAsk(b), RZero) /\ RLe(getBestAsk(b), order.price)
    ELSE RGt(getBestBid(b), RZero) /\ RGe(getBestBid(b), order.price)

\* a plausible slip: the status test is left out of the collecting loop
FillsToProcessAnyStatus(om, token_id, b) ==
    {id \in DOMAIN om.orders :
        /\ om.orders[id].token_id = token_id
        /\ ShouldFill(om.orders[id], b)}

\* fills_to_process in checkForFills
FillsToProcess(om, token_id, b) ==
    {id \in DOMAIN om.orders :
        /\ om.orders[id].token_id = token_id
        /\ om.orders[id].status = "OPEN"
        /\ ShouldFill(om.orders[id], b)}

\* a plausible slip: the fill leaves the order OPEN
generateFillKeepsOpen(om, order_id, fill_price, fill_size) ==
    IF order_id \notin DOMAIN om.orders THEN om
    ELSE [om EXCEPT !.orders[order_id].filled_size = RAdd(@, fill_size)]

\* OrderManager::generateFill: the order manager after the fill
generateFill(om, order_id, fill_price, fill_size) ==
    IF order_id \notin DOMAIN om.orders THEN om
    ELSE LET order == om.orders[order_id]
             filled == RAdd(order.filled_size, fill_size)
         IN  [om EXCEPT !.orders[order_id].filled_size = filled,
                        !.orders[order_id].status =
                            IF RGe(filled, order.size) THEN "FILLED" ELSE @]

\* Event::orderFill as generateFill builds it
orderFill(order, fill_price, fill_size) ==
    [type |-> "ORDER_FILL", order_id |-> order.order_id, token_id |-> order.token_id,
     fill_price |-> fill_price, filled_size |-> fill_size, side |-> order.side]

RECURSIVE FillEach(_, _)
FillEach(om, ids) ==
    IF ids = {} THEN om
    ELSE LET id == CHOOSE i \in ids : TRUE
         IN  FillEach(generateFill(om, id, om.orders[id].price, om.orders[id].size),
                      ids \ {id})

checkForFills(om, token_id, b) ==
    IF om.trading_mode # "PAPER" THEN om
    ELSE FillEach(om, FillsToProcess(om, token_id, b))

updateOrderBook(om, token_id, b) ==
    LET cached == [om EXCEPT !.market_books = MapPut(@, token_id, b)]
    IN  IF om.trading_mode = "PAPER" THEN checkForFills(cached, token_id, b) ELSE cached

\* the OrderFill events one updateOrderBook call pushes
FillEvents(om, token_id, b) ==
    IF om.trading_mode # "PAPER" THEN {}
    ELSE {orderFill(om.orders[id], om.orders[id].price, om.orders[id].size) :
             id \in FillsToProcess(om, token_id, b)}

\* the orders a pass over the unordered_map can push them in
Orderings(S) ==
    {seq \in [1..Cardinality(S) -> S] : \A i, k \in 1..Cardinality(S) : seq[i] = seq[k] => i = k}

getOpenOrders(om, token_id) ==
    {om.orders[id] : id \in {i \in DOMAIN om.orders : om.orders[i].token_id = token_id}}

\* OrderManager::getOpenOrderCount, getBidCount, getAskCount
getOpenOrderCount(om) == Cardinality(DOMAIN om.orders)
getBidCount(om) == Cardinality({id \in DOMAIN om.orders : om.orders[id].side = "BUY"})
getAskCount(om) == Cardinality({id \in DOMAIN om.orders : om.orders[id].side = "SELL"})

(***************************************************************************)
(* EventQueue: std::queue guarded by one mutex and one condition variable. *)
(***************************************************************************)
QueueAfterPushFront(q, e) == <<e>> \o q

\* std::queue::push appends at the back
QueueAfterPush(q, e) == Append(q, e)
\* std::queue::front / pop take from the front
QueueFront(q) == Head(q)
QueueAfterPop(q) == Tail(q)

VARIABLES
    book,       \* a single OrderBook object driven through its public methods
    last,       \* the last operation performed: its name, arguments and result
    eq_queue,   \* EventQueue::queue_
    eq_mutex,   \* EventQueue::mutex_: the thread holding it, or "free"
    eq_pc,      \* where each thread stands inside push / pop
    eq_notified,\* a notify_one has been delivered to the waiting consumer
    eq_sent,    \* per producer, how many events it has pushed
    eq_log,     \* every event in the order push() enqueued it
    eq_popped,  \* every event pop() has returned, in order
    now,        \* the clocks (steady and system advance together), in seconds
    mm,         \* a single MarketMaker object driven through its public methods
    mm_book,    \* the book handed to that maker's generateQuote
    mm_fills,   \* how many fills that maker has been given
    pos,        \* a single engine Position driven by updatePosition
    pos_ledger, \* sum of the PnL of every slice closed so far, kept slice by slice
    pos_fills,  \* how many fills that position has been given
    sp_file,    \* the state file of a StatePersistence object
    sp_current_state, \* StatePersistence::current_state_
    sp_saves,   \* how many times saveState has run
    om,         \* a single OrderManager object driven through its public methods
    eng,        \* the StrategyEngine, its order manager, makers and event queue
    eng_pushed, \* how many events the transport has pushed to the engine
    eng_advances, \* how many times the clock has advanced since start()
    eng_swept,  \* per token, the expiry a sweep last requoted and its outcome
    strategy_thread, \* where the strategy thread stands among its accesses to shared members
    status_thread,   \* where main's status thread stands among the getters it calls
    as_manager, \* a single AdverseSelectionManager driven through its public methods
    as_fills,   \* how many fills that manager has recorded
    as_ticks,   \* how many times its clock has advanced
    as_decays,  \* how many times decay() has run
    phase_md,   \* a single MarketMetadata object
    phase_seen, \* what that object last answered, and when
    ws,         \* a single PolymarketWebSocketClient
    feed,       \* what that client's message handler has pushed and logged
    rs          \* the engines of one process and calculateQuotes' restore step

bookVars == <<book>>
queueVars == <<eq_queue, eq_mutex, eq_pc, eq_notified, eq_sent, eq_log, eq_popped>>
mmVars == <<mm, mm_book, mm_fills>>
posVars == <<pos, pos_ledger, pos_fills>>
spVars == <<sp_file, sp_current_state, sp_saves>>
omVars == <<om>>
engVars == <<eng, eng_pushed, eng_advances, eng_swept>>
threadVars == <<strategy_thread, status_thread>>
asVars == <<as_manager, as_fills, as_ticks, as_decays>>
phaseVars == <<phase_md, phase_seen>>
wsVars == <<ws>>
feedVars == <<feed>>
restoreVars == <<rs>>
restVars == <<threadVars, asVars, phaseVars, wsVars, feedVars, restoreVars>>
vars == <<book, last, eq_queue, eq_mutex, eq_pc, eq_notified, eq_sent, eq_log, eq_popped,
          now, mm, mm_book, mm_fills, pos, pos_ledger, pos_fills,
          sp_file, sp_current_state, sp_saves, om,
          eng, eng_pushed, eng_advances, eng_swept,
          strategy_thread, status_thread,
          as_manager, as_fills, as_ticks, as_decays,
          phase_md, phase_seen, ws, feed, rs>>

(***************************************************************************)
(* The order book driven by arbitrary update_bid / update_ask / clear.     *)
(***************************************************************************)
BookUpdateBid ==
    \E p \in BookPrices, s \in BookSizes :
        /\ book' = updateBid(book, p, s)
        /\ last' = [op |-> "updateBid", price |-> p, size |-> s,
                     had |-> p \in DOMAIN book.bids]
        /\ UNCHANGED <<queueVars, now, mmVars, posVars, spVars, omVars, engVars, restVars>>

BookUpdateAsk ==
    \E p \in BookPrices, s \in BookSizes :
        /\ book' = updateAsk(book, p, s)
        /\ last' = [op |-> "updateAsk", price |-> p, size |-> s,
                     had |-> p \in DOMAIN book.asks]
        /\ UNCHANGED <<queueVars, now, mmVars, posVars, spVars, omVars, engVars, restVars>>

BookClear ==
    /\ book' = clear(book)
    /\ last' = [op |-> "clear"]
    /\ UNCHANGED <<queueVars, now, mmVars, posVars, spVars, omVars, engVars, restVars>>

NextBook == BookUpdateBid \/ BookUpdateAsk \/ BookClear

(***************************************************************************)
(* The event queue under concurrent push and pop.  Every thread may push;  *)
(* only the strategy thread pops, and it pushes too (fills, shutdown)      *)
(* between two pops.  An event is <<producer, sequence number>>.           *)
(***************************************************************************)
MaxPush == 2

Consumer == "strategy"
Producers == {"transport", "main"}
Threads == Producers \cup {Consumer}

InitQueue ==
    /\ eq_queue = <<>>
    /\ eq_mutex = "free"
    /\ eq_pc = [t \in Threads |-> "idle"]
    /\ eq_notified = FALSE
    /\ eq_sent = [t \in Threads |-> 0]
    /\ eq_log = <<>>
    /\ eq_popped = <<>>

\* push: std::lock_guard lock(mutex_)
PushLock(t) ==
    /\ eq_pc[t] = "idle"
    /\ eq_sent[t] < MaxPush
    /\ eq_mutex = "free"
    /\ eq_mutex' = t
    /\ eq_pc' = [eq_pc EXCEPT ![t] = "push_locked"]
    /\ last' = [op |-> "push_lock", thread |-> t]
    /\ UNCHANGED <<eq_queue, eq_notified, eq_sent, eq_log, eq_popped, engVars, restVars>>
    /\ UNCHANGED <<bookVars, now, mmVars, posVars, spVars, omVars, engVars, restVars>>

\* push: queue_.push(std::move(event)); the guard's scope ends
PushEnqueue(t) ==
    /\ eq_pc[t] = "push_locked"
    /\ LET e == <<t, eq_sent[t] + 1>> IN
        /\ eq_queue' = QueueAfterPush(eq_queue, e)
        /\ eq_log' = Append(eq_log, e)
    /\ eq_sent' = [eq_sent EXCEPT ![t] = @ + 1]
    /\ eq_mutex' = "free"
    /\ eq_pc' = [eq_pc EXCEPT ![t] = "push_notify"]
    /\ last' = [op |-> "push_enqueue", thread |-> t]
    /\ UNCHANGED <<eq_notified, eq_popped, engVars, restVars>>
    /\ UNCHANGED <<bookVars, now, mmVars, posVars, spVars, omVars, engVars, restVars>>

\* push: cv_.notify_one()
PushNotify(t) ==
    /\ eq_pc[t] = "push_notify"
    /\ eq_notified' = (eq_notified \/ eq_pc[Consumer] = "pop_waiting")
    /\ eq_pc' = [eq_pc EXCEPT ![t] = "idle"]
    /\ last' = [op |-> "push_notify", thread |-> t]
    /\ UNCHANGED <<eq_queue, eq_mutex, eq_sent, eq_log, eq_popped, engVars, restVars>>
    /\ UNCHANGED <<bookVars, now, mmVars, posVars, spVars, omVars, engVars, restVars>>

\* pop: std::unique_lock lock(mutex_)
PopLock ==
    /\ eq_pc[Consumer] = "idle"
    /\ eq_mutex = "free"
    /\ eq_mutex' = Consumer
    /\ eq_pc' = [eq_pc EXCEPT ![Consumer] = "pop_check"]
    /\ last' = [op |-> "pop_lock", thread |-> Consumer]
    /\ UNCHANGED <<eq_queue, eq_notified, eq_sent, eq_log, eq_popped, engVars, restVars>>
    /\ UNCHANGED <<bookVars, now, mmVars, posVars, spVars, omVars, engVars, restVars>>

\* pop: cv_.wait(lock, pred) finds the queue empty: release the mutex and block
PopWait ==
    /\ eq_pc[Consumer] = "pop_check"
    /\ eq_queue = <<>>
    /\ eq_mutex' = "free"
    /\ eq_notified' = FALSE
    /\ eq_pc' = [eq_pc EXCEPT ![Consumer] = "pop_waiting"]
    /\ last' = [op |-> "pop_wait", thread |-> Consumer]
    /\ UNCHANGED <<eq_queue, eq_sent, eq_log, eq_popped, engVars, restVars>>
    /\ UNCHANGED <<bookVars, now, mmVars, posVars, spVars, omVars, engVars, restVars>>

\* pop: the notified waiter wakes, takes the mutex again and re-evaluates the
\* predicate
PopWake ==
    /\ eq_pc[Consumer] = "pop_waiting"
    /\ eq_notified
    /\ eq_mutex = "free"
    /\ eq_mutex' = Consumer
    /\ eq_notified' = FALSE
    /\ eq_pc' = [eq_pc EXCEPT ![Consumer] = "pop_check"]
    /\ last' = [op |-> "pop_wake", thread |-> Consumer]
    /\ UNCHANGED <<eq_queue, eq_sent, eq_log, eq_popped, engVars, restVars>>
    /\ UNCHANGED <<bookVars, now, mmVars, posVars, spVars, omVars, engVars, restVars>>

\* pop: a condition variable may also wake its waiter with no notification
PopSpuriousWake ==
    /\ eq_pc[Consumer] = "pop_waiting"
    /\ ~eq_notified
    /\ eq_mutex = "free"
    /\ eq_mutex' = Consumer
    /\ eq_pc' = [eq_pc EXCEPT ![Consumer] = "pop_check"]
    /\ last' = [op |-> "pop_spurious_wake", thread |-> Consumer]
    /\ UNCHANGED <<eq_queue, eq_notified, eq_sent, eq_log, eq_popped, engVars, restVars>>
    /\ UNCHANGED <<bookVars, now, mmVars, posVars, spVars, omVars, engVars, restVars>>

\* pop: the predicate holds: move the front out, queue_.pop(), unlock, return
PopTake ==
    /\ eq_pc[Consumer] = "pop_check"
    /\ eq_queue # <<>>
    /\ eq_popped' = Append(eq_popped, QueueFront(eq_queue))
    /\ eq_queue' = QueueAfterPop(eq_queue)
    /\ eq_mutex' = "free"
    /\ eq_pc' = [eq_pc EXCEPT ![Consumer] = "idle"]
    /\ last' = [op |-> "pop", thread |-> Consumer]
    /\ UNCHANGED <<eq_notified, eq_sent, eq_log, engVars, restVars>>
    /\ UNCHANGED <<bookVars, now, mmVars, posVars, spVars, omVars, engVars, restVars>>

NextQueue ==
    \/ \E t \in Threads : PushLock(t)
    \/ \E t \in Threads : PushEnqueue(t)
    \/ \E t \in Threads : PushNotify(t)
    \/ PopLock
    \/ PopWait
    \/ PopWake
    \/ PopSpuriousWake
    \/ PopTake

(***************************************************************************)
(* The market maker driven through its public methods: fills, close time,  *)
(* and generateQuote on books of every shape (normal, at the price limits, *)
(* tighter than a cent, crossed, one-sided, empty).                        *)
(***************************************************************************)
MaxFills == 2
MaxClock == 1

DefaultSpreadPct == R(2, 100)
DefaultMaxPosition == RInt(1000)

OneLevelBook(bid, bid_size, ask, ask_size) ==
    [bids |-> (bid :> bid_size), asks |-> (ask :> ask_size)]

MMBooks ==
    { OneLevelBook(R(48, 100), 1000, R(54, 100), 800),
      OneLevelBook(R(97, 100), 100, R(99, 100), 100),
      OneLevelBook(R(1, 100), 100, R(3, 100), 300),
      OneLevelBook(R(50, 100), 100, R(101, 200), 100),
      OneLevelBook(R(52, 100), 100, R(50, 100), 100),
      [bids |-> (R(48, 100) :> 1000), asks |-> <<>>],
      [bids |-> <<>>, asks |-> (R(54, 100) :> 800)] }

MMFillSizes == {RInt(100), RInt(900)}
MMFillPrices == {R(50, 100), R(98, 100)}
Sides == {"BUY", "SELL"}
\* hours from now to the market close handed to setMarketCloseTime
MMCloseHours == {-2, 2, 12}

InitMM ==
    /\ mm = NewMarketMaker(DefaultSpreadPct, DefaultMaxPosition, 0)
    /\ mm_book = EmptyBook
    /\ mm_fills = 0

MMUpdateInventory ==
    /\ mm_fills < MaxFills
    /\ \E side \in Sides, size \in MMFillSizes, price \in MMFillPrices :
          mm' = updateInventory(mm, side, size, price)
    /\ mm_fills' = mm_fills + 1
    /\ last' = [op |-> "input"]
    /\ UNCHANGED <<mm_book, now, bookVars, queueVars, posVars, spVars, omVars, engVars, restVars>>

MMSetMarketCloseTime ==
    /\ \E h \in MMCloseHours : mm' = setMarketCloseTime(mm, now + h * SecondsPerHour)
    /\ last' = [op |-> "input"]
    /\ UNCHANGED <<mm_book, mm_fills, now, bookVars, queueVars, posVars, spVars, omVars, engVars, restVars>>

MMSetBook ==
    /\ \E b \in MMBooks : mm_book' = b
    /\ last' = [op |-> "input"]
    /\ UNCHANGED <<mm, mm_fills, now, bookVars, queueVars, posVars, spVars, omVars, engVars, restVars>>

MMTick ==
    /\ now < MaxClock
    /\ now' = now + 1
    /\ last' = [op |-> "input"]
    /\ UNCHANGED <<mmVars, bookVars, queueVars, posVars, spVars, omVars, engVars, restVars>>

\* MarketMaker::generateQuote(book)
MMGenerateQuote ==
    /\ \E vol \in VolatilityOutcomes(mm, now) :
          LET m1 == AfterQuoteCall(mm, mm_book, now, vol)
          IN  /\ mm' = m1
              /\ last' = [op |-> "generateQuote", quote |-> QuoteFor(m1, mm_book, now)]
    /\ UNCHANGED <<mm_book, mm_fills, now, bookVars, queueVars, posVars, spVars, omVars, engVars, restVars>>

NextMM ==
    \/ MMUpdateInventory
    \/ MMSetMarketCloseTime
    \/ MMSetBook
    \/ MMTick
    \/ MMGenerateQuote

(***************************************************************************)
(* One position driven by fills of every kind: opening, adding, partially  *)
(* closing, exactly closing and flipping, long and short.                  *)
(***************************************************************************)
MaxPosFills == 3

PosFillSizes == {RInt(50), RInt(100), RInt(150)}
PosFillPrices == {R(40, 100), R(50, 100), R(55, 100)}

Sign(x) == IF RGt(x, RZero) THEN 1 ELSE IF RLt(x, RZero) THEN -1 ELSE 0

\* the signed quantity of the position that a fill closes: the smaller of the
\* fill and the position when they are opposed, nothing otherwise
SignedClose(quantity, signed_qty) ==
    IF Sign(quantity) * Sign(signed_qty) = -1
    THEN RMul(RInt(Sign(quantity)), RMin(RAbs(quantity), RAbs(signed_qty)))
    ELSE RZero

InitPos ==
    /\ pos = NewPosition
    /\ pos_ledger = RZero
    /\ pos_fills = 0

PosUpdatePosition ==
    /\ pos_fills < MaxPosFills
    /\ \E side \in Sides, qty \in PosFillSizes, price \in PosFillPrices :
          LET signed_qty == IF side = "BUY" THEN qty ELSE RNeg(qty)
          IN  /\ pos' = updatePosition(pos, qty, price, side, now)
              /\ pos_ledger' = RAdd(pos_ledger,
                                    RMul(SignedClose(pos.quantity, signed_qty),
                                         RSub(price, pos.avg_entry_price)))
              /\ last' = [op |-> "updatePosition", side |-> side, qty |-> qty,
                          price |-> price, before |-> pos.quantity]
    /\ pos_fills' = pos_fills + 1
    /\ UNCHANGED <<now, bookVars, queueVars, mmVars, spVars, omVars, engVars, restVars>>

PosTick ==
    /\ now < MaxClock
    /\ now' = now + 1
    /\ last' = [op |-> "input"]
    /\ UNCHANGED <<posVars, bookVars, queueVars, mmVars, spVars, omVars, engVars, restVars>>

NextPos == PosUpdatePosition \/ PosTick

(***************************************************************************)
(* One StatePersistence object: any number of saves of arbitrary valid     *)
(* states, and loads in between.                                           *)
(***************************************************************************)
MaxSaves == 2
MaxTimePoint == 3

SavedPositions ==
    LET long == [quantity |-> RInt(500), avg_cost |-> R(55, 100), realized_pnl |-> RInt(250)]
        short == [quantity |-> RInt(-300), avg_cost |-> R(45, 100), realized_pnl |-> RInt(-50)]
    IN  { <<>>, [k \in {"T1"} |-> long], [k \in {"T2"} |-> short],
          [k \in {"T1", "T2"} |-> IF k = "T1" THEN long ELSE short] }

SavedTotals ==
    { [trades |-> 0, volume |-> RZero, pnl |-> RZero],
      [trades |-> 50, volume |-> RInt(25000), pnl |-> RInt(1000)],
      [trades |-> 3, volume |-> R(3, 2), pnl |-> R(-1, 4)] }

ValidStates ==
    { [positions |-> p, total_realized_pnl |-> tot.pnl, total_trades |-> tot.trades,
       total_volume |-> tot.volume, last_session_id |-> sid, last_updated |-> tp] :
         p \in SavedPositions, tot \in SavedTotals,
         sid \in {"", "session_123"}, tp \in 0..MaxTimePoint }

InitPersist ==
    /\ sp_file = NoFile
    /\ sp_current_state = NewTradingState
    /\ sp_saves = 0

PersistSaveState ==
    /\ sp_saves < MaxSaves
    /\ \E state \in ValidStates :
          /\ sp_current_state' = state
          /\ sp_file' = FileAfterWrite(sp_file, StateJson(state))
    /\ sp_saves' = sp_saves + 1
    /\ last' = [op |-> "saveState"]
    /\ UNCHANGED <<now, bookVars, queueVars, mmVars, posVars, omVars, engVars, restVars>>

PersistLoadState ==
    /\ last' = [op |-> "loadState", state |-> loadState(sp_file)]
    /\ UNCHANGED <<now, bookVars, queueVars, mmVars, posVars, spVars, omVars, engVars, restVars>>

\* the document a previous session left behind, before it was damaged
ForeignJson ==
    StateJson([positions |-> [k \in {"T1", "T2"} |->
                                 [quantity |-> RInt(500), avg_cost |-> R(55, 100),
                                  realized_pnl |-> RInt(250)]],
               total_realized_pnl |-> RInt(1000), total_trades |-> 50,
               total_volume |-> RInt(25000), last_session_id |-> "session_123",
               last_updated |-> 2])

\* the document with the value at one key replaced
Damaged(j, key, value) == JObject([j.v EXCEPT ![key] = value])

\* files found at startup: not JSON at all, JSON that is no object, an
\* ill-typed first field, an ill-typed field after two good ones, an
\* ill-typed "positions", an ill-typed second position, and an intact one
ForeignFiles ==
    << [exists |-> TRUE, json |-> JInvalid],
       [exists |-> TRUE, json |-> JInt(5)],
       [exists |-> TRUE, json |-> Damaged(ForeignJson, "last_session_id", JInt(7))],
       [exists |-> TRUE, json |-> Damaged(ForeignJson, "total_volume", JString("much"))],
       [exists |-> TRUE, json |-> Damaged(ForeignJson, "positions", JString("none"))],
       [exists |-> TRUE,
        json |-> Damaged(ForeignJson, "positions",
                         Damaged(ForeignJson.v.positions, "T2", JString("flat")))],
       [exists |-> TRUE, json |-> ForeignJson] >>

\* the state file as the object finds it before its first save: written by
\* an earlier session, cut short or edited by hand
PersistFindFile ==
    /\ sp_saves = 0
    /\ \E i \in DOMAIN ForeignFiles : sp_file' = ForeignFiles[i]
    /\ last' = [op |-> "input"]
    /\ UNCHANGED <<sp_current_state, sp_saves, now, bookVars, queueVars, mmVars, posVars, omVars, engVars, restVars>>

NextPersist == PersistSaveState \/ PersistLoadState \/ PersistFindFile

(***************************************************************************)
(* One OrderManager driven through its public methods: orders of both      *)
(* sides on two tokens, books that cross them or not, both trading modes.  *)
(***************************************************************************)
MaxOrders == 2

Tokens == {"T1", "T2"}
TradingModes == {"PAPER", "LIVE"}

\* token, side, price, size of the orders placed
OrderShapes ==
    { <<"T1", "BUY", R(45, 100), RInt(100)>>, <<"T1", "BUY", R(50, 100), RInt(10)>>,
      <<"T1", "SELL", R(50, 100), RInt(100)>>, <<"T1", "SELL", R(45, 100), RInt(10)>>,
      <<"T2", "BUY", R(50, 100), RInt(100)>> }

OMBooks ==
    { [bids |-> (R(44, 100) :> 500), asks |-> <<>>],
      OneLevelBook(R(44, 100), 500, R(45, 100), 300),
      OneLevelBook(R(46, 100), 500, R(48, 100), 300) }

InitOM == om = NewOrderManager("PAPER")

OMSetTradingMode ==
    /\ \E mode \in TradingModes : om' = setTradingMode(om, mode)
    /\ last' = [op |-> "input"]
    /\ UNCHANGED <<now, bookVars, queueVars, mmVars, posVars, spVars, engVars, restVars>>

OMPlaceOrder ==
    /\ om.next_order_id <= MaxOrders
    /\ \E shape \in OrderShapes :
          om' = placeOrder(om, shape[1], shape[2], shape[3], shape[4], now)
    /\ last' = [op |-> "input"]
    /\ UNCHANGED <<now, bookVars, queueVars, mmVars, posVars, spVars, engVars, restVars>>

OMCancelOrder ==
    /\ \E id \in 1..MaxOrders :
          /\ om' = cancelOrder(om, id)
          /\ last' = [op |-> "cancelOrder", order_id |-> id,
                      result |-> cancelOrderFound(om, id)]
    /\ UNCHANGED <<now, bookVars, queueVars, mmVars, posVars, spVars, engVars, restVars>>

OMCancelAllOrdersOfToken ==
    /\ \E token \in Tokens :
          /\ om' = cancelAllOrders(om, token)
          /\ last' = [op |-> "cancelAllOrders", token |-> token]
    /\ UNCHANGED <<now, bookVars, queueVars, mmVars, posVars, spVars, engVars, restVars>>

OMCancelAllOrders ==
    /\ om' = cancelAllOrdersGlobal(om)
    /\ last' = [op |-> "input"]
    /\ UNCHANGED <<now, bookVars, queueVars, mmVars, posVars, spVars, engVars, restVars>>

OMUpdateOrderBook ==
    /\ \E token \in Tokens, b \in OMBooks :
          /\ om' = updateOrderBook(om, token, b)
          /\ \E fills \in Orderings(FillEvents(om, token, b)) :
                last' = [op |-> "updateOrderBook", token |-> token, book |-> b,
                         mode |-> om.trading_mode, fills |-> fills]
    /\ UNCHANGED <<now, bookVars, queueVars, mmVars, posVars, spVars, engVars, restVars>>

NextOM ==
    \/ OMSetTradingMode
    \/ OMPlaceOrder
    \/ OMCancelOrder
    \/ OMCancelAllOrdersOfToken
    \/ OMCancelAllOrders
    \/ OMUpdateOrderBook

(***************************************************************************)
(* MarketMetadata and the TTL a quote carries.                             *)
(***************************************************************************)
SecondsPerMinute == 60

\* the value F yields for v, with v computed once
With(v, F(_)) == CHOOSE r \in {F(x) : x \in {v}} : TRUE

\* what registerMarketMetadata stores (titles are only logged)
NewMarketMetadata(condition_id) ==
    [condition_id |-> condition_id, has_end_time |-> FALSE, event_end_time |-> 0]

\* a plausible slip: the minutes are rounded down instead of toward zero
getMarketPhaseFloor(md, t) ==
    IF ~md.has_end_time THEN "PRE_MATCH_EARLY"
    ELSE LET time_to_match == (md.event_end_time - t) \div SecondsPerMinute
         IN  IF time_to_match < 0 THEN "IN_PLAY"
             ELSE IF time_to_match < 10 THEN "PRE_MATCH_CRITICAL"
             ELSE IF time_to_match < 60 THEN "PRE_MATCH_LATE"
             ELSE "PRE_MATCH_EARLY"

getMarketPhase(md, t) ==
    IF ~md.has_end_time THEN "PRE_MATCH_EARLY"
    ELSE LET time_to_match == TruncDiv(md.event_end_time - t, SecondsPerMinute)
         IN  IF time_to_match < 0 THEN "IN_PLAY"
             ELSE IF time_to_match < 10 THEN "PRE_MATCH_CRITICAL"
             ELSE IF time_to_match < 60 THEN "PRE_MATCH_LATE"
             ELSE "PRE_MATCH_EARLY"

getRecommendedTTL(md, t) ==
    CASE getMarketPhase(md, t) = "PRE_MATCH_EARLY" -> 90
      [] getMarketPhase(md, t) = "PRE_MATCH_LATE" -> 45
      [] getMarketPhase(md, t) = "PRE_MATCH_CRITICAL" -> 20
      [] getMarketPhase(md, t) = "IN_PLAY" -> 3

DefaultTTL == 90

\* the metadata pointer calculateQuotes hands to generateQuote
NoMetadata == [absent |-> TRUE]

\* the TTL generateQuote gives a quote: the phase's, or the default when it
\* was handed no metadata
QuoteTTL(md, t) ==
    IF "absent" \in DOMAIN md THEN DefaultTTL ELSE getRecommendedTTL(md, t)

\* generateQuote(book, metadata, spread_multiplier) at spread_multiplier 1.0,
\* the header's default: the maker after the call and the quote, which
\* carries the phase's TTL and the time it was made
generateQuote(m, b, md, t, vol) ==
    With(AfterQuoteCall(m, b, t, vol),
         LAMBDA m1 :
            [mm |-> m1,
             quote |->
                With(QuoteFor(m1, b, t),
                     LAMBDA q :
                        IF IsQuote(q)
                        THEN [bid_price |-> q.bid_price, bid_size |-> q.bid_size,
                              ask_price |-> q.ask_price, ask_size |-> q.ask_size,
                              ttl_seconds |-> QuoteTTL(md, t),
                              created_at |-> t]
                        ELSE NoQuote)])

\* a plausible slip: a quote exactly ttl_seconds old is not yet expired
isExpiredStrict(summary, t) == t - summary.quote_created_at > summary.ttl_seconds

\* QuoteSummary::isExpired
isExpired(summary, t) == t - summary.quote_created_at >= summary.ttl_seconds

(***************************************************************************)
(* AdverseSelectionManager: per token a history of fills, each measured 5  *)
(* and 30 seconds after it happened, and a stored spread multiplier.       *)
(***************************************************************************)
MIN_MULTIPLIER == RInt(1)
MAX_MULTIPLIER == RInt(3)
TOXIC_THRESHOLD == R(-5, 1000)
FavourableThreshold == R(5, 1000)
DECAY_RATE == R(95, 100)
MAX_FILL_HISTORY == 50
CaptureEarlySeconds == 5
CaptureSeconds == 30

NewAdverseSelectionManager == [fill_history |-> <<>>, spread_multipliers |-> <<>>]

NewFillQualityMetrics(side, mid_at_fill, t) ==
    [side |-> side, mid_at_fill |-> mid_at_fill, fill_time |-> t,
     price_move_5s |-> RZero, price_move_30s |-> RZero,
     is_toxic |-> FALSE, metrics_captured |-> FALSE]

recordFill(a, token_id, side, mid_at_fill, t) ==
    LET old == IF token_id \in DOMAIN a.fill_history THEN a.fill_history[token_id] ELSE <<>>
        pushed == Append(old, NewFillQualityMetrics(side, mid_at_fill, t))
    IN  [a EXCEPT !.fill_history =
            MapPut(@, token_id,
                   IF Len(pushed) > MAX_FILL_HISTORY THEN Tail(pushed) ELSE pushed)]

\* the price move since the fill, signed so that negative is against us
PriceMove(metrics, current_mid) ==
    LET price_change == RDiv(RSub(current_mid, metrics.mid_at_fill), metrics.mid_at_fill)
    IN  IF metrics.side = "BUY" THEN price_change ELSE RNeg(price_change)

\* one element of the history after the loop body of updateMetrics
MetricsAfterUpdate(metrics, current_mid, t) ==
    LET time_since_fill == t - metrics.fill_time
        m5 == IF time_since_fill >= CaptureEarlySeconds /\ metrics.price_move_5s = RZero
              THEN [metrics EXCEPT !.price_move_5s = PriceMove(metrics, current_mid)]
              ELSE metrics
    IN  IF metrics.metrics_captured THEN metrics
        ELSE IF time_since_fill >= CaptureSeconds
        THEN [m5 EXCEPT !.price_move_30s = PriceMove(metrics, current_mid),
                        !.is_toxic = RLt(PriceMove(metrics, current_mid), TOXIC_THRESHOLD),
                        !.metrics_captured = TRUE]
        ELSE m5

\* spread_multipliers_[token_id]: operator[] inserts a value-initialised
\* double, 0.0, when the token has none
MultiplierRef(multipliers, token_id) ==
    IF token_id \in DOMAIN multipliers THEN multipliers[token_id] ELSE RZero

\* the stored multipliers after the loop body has measured one fill
MultipliersAfterUpdate(multipliers, token_id, before, after) ==
    IF before.metrics_captured \/ ~after.metrics_captured THEN multipliers
    ELSE IF after.is_toxic
    THEN MapPut(multipliers, token_id,
                RMin(MAX_MULTIPLIER,
                     RAdd(RMul(MultiplierRef(multipliers, token_id), R(12, 10)), R(1, 10))))
    ELSE IF RGt(after.price_move_30s, FavourableThreshold)
    THEN MapPut(multipliers, token_id,
                RMax(MIN_MULTIPLIER,
                     RMul(MultiplierRef(multipliers, token_id), DECAY_RATE)))
    ELSE multipliers

RECURSIVE UpdateEach(_, _, _, _, _)
UpdateEach(a, token_id, i, current_mid, t) ==
    IF i > Len(a.fill_history[token_id]) THEN a
    ELSE LET before == a.fill_history[token_id][i]
             after == MetricsAfterUpdate(before, current_mid, t)
         IN  UpdateEach([a EXCEPT !.fill_history[token_id][i] = after,
                                  !.spread_multipliers =
                                      MultipliersAfterUpdate(@, token_id, before, after)],
                        token_id, i + 1, current_mid, t)

updateMetrics(a, token_id, current_mid, t) ==
    IF token_id \notin DOMAIN a.fill_history THEN a
    ELSE UpdateEach(a, token_id, 1, current_mid, t)

decay(a) ==
    [a EXCEPT !.spread_multipliers =
        [token_id \in DOMAIN @ |->
            IF RGt(@[token_id], MIN_MULTIPLIER)
            THEN RMax(MIN_MULTIPLIER,
                      RAdd(MIN_MULTIPLIER,
                           RMul(RSub(@[token_id], MIN_MULTIPLIER), DECAY_RATE)))
            ELSE @[token_id]]]

(***************************************************************************)
(* StrategyEngine.  The engine is a record of its members; a run context   *)
(* c pairs the engine e with the calls the current loop iteration has made *)
(* (calls, sweeps) and with the expiries already requoted (swept).         *)
(***************************************************************************)
MatchTolerance == R(1, 1000)
QuoteCheckSeconds == 1
SnapshotSeconds == 60

\* StrategyEngine::StrategyEngine with no state file to load
NewStrategyEngine(mode, t) ==
    [order_books |-> <<>>, market_metadata |-> <<>>, market_makers |-> <<>>,
     order_manager |-> NewOrderManager(mode), positions |-> <<>>,
     active_quotes |-> <<>>, restored_markets |-> {}, total_fills |-> 0,
     event_queue |-> <<>>, running |-> FALSE, thread |-> "unstarted", stop |-> "uncalled",
     last_quote_check |-> t, last_snapshot |-> t, state_file |-> NoFile,
     as_manager |-> NewAdverseSelectionManager]

NewContext(e, swept) == [e |-> e, calls |-> <<>>, sweeps |-> <<>>, swept |-> swept]

\* one call made by the loop iteration, with what it returned where that matters
Call(name, token_id, reason, result) ==
    [call |-> name, token_id |-> token_id, reason |-> reason, result |-> result]

getOrCreateOrderBook(books, token_id) ==
    IF token_id \in DOMAIN books THEN books ELSE MapPut(books, token_id, EmptyBook)

registerMarketMetadata(e, token_id, condition_id) ==
    [e EXCEPT !.market_metadata = MapPut(@, token_id, NewMarketMetadata(condition_id))]

registerMarket(e, token_id, condition_id, t) ==
    LET e1 == registerMarketMetadata(e, token_id, condition_id)
    IN  IF token_id \in DOMAIN e1.market_makers THEN e1
        ELSE [e1 EXCEPT !.market_makers =
                 MapPut(@, token_id, NewMarketMaker(DefaultSpreadPct, DefaultMaxPosition, t))]

setEventEndTime(e, condition_id, end_time) ==
    LET md == e.market_metadata
        makers == e.market_makers
        hit == {k \in DOMAIN md : md[k].condition_id = condition_id}
    IN  [e EXCEPT
           !.market_metadata =
               [k \in DOMAIN md |->
                   IF k \in hit
                   THEN [md[k] EXCEPT !.event_end_time = end_time, !.has_end_time = TRUE]
                   ELSE md[k]],
           !.market_makers =
               [k \in DOMAIN makers |->
                   IF k \in hit THEN setMarketCloseTime(makers[k], end_time)
                   ELSE makers[k]]]

\* a plausible slip: market_makers_[token_id] instead of find() creates a maker
MakersAfterLookupCreating(makers, token_id, t) ==
    IF token_id \in DOMAIN makers THEN makers
    ELSE MapPut(makers, token_id, NewMarketMaker(DefaultSpreadPct, DefaultMaxPosition, t))

\* market_makers_.find(token_id) in calculateQuotes leaves the map as it is
MakersAfterLookup(makers, token_id, t) == makers

\* the matching test of calculateQuotes over getOpenOrders(token_id)
HasMatching(manager, token_id, side, price) ==
    \E o \in getOpenOrders(manager, token_id) :
        o.side = side /\ RLt(RAbs(RSub(o.price, price)), MatchTolerance)

\* the QuoteSummary calculateQuotes stores (its logged-only fields left out)
QuoteSummaryOf(quote) ==
    [bid_price |-> quote.bid_price, ask_price |-> quote.ask_price,
     quote_created_at |-> quote.created_at, ttl_seconds |-> quote.ttl_seconds]

\* calculateQuotes once generateQuote has returned the quote q
QuoteReceived(c, token_id, cancel_reason, t, q) ==
    LET om0 == c.e.order_manager
        has_matching_bid == HasMatching(om0, token_id, "BUY", q.bid_price)
        has_matching_ask == HasMatching(om0, token_id, "SELL", q.ask_price)
        quotes == MapPut(c.e.active_quotes, token_id, QuoteSummaryOf(q))
    IN  IF has_matching_bid /\ has_matching_ask
        THEN [c EXCEPT !.e.active_quotes = quotes]
        ELSE [c EXCEPT
                !.e.active_quotes = quotes,
                !.e.order_manager =
                    placeOrder(
                        placeOrder(cancelAllOrders(om0, token_id),
                                   token_id, "BUY", q.bid_price, q.bid_size, t),
                        token_id, "SELL", q.ask_price, q.ask_size, t),
                !.calls = @ \o
                    << Call("cancelAllOrders", token_id, cancel_reason, ""),
                       Call("placeOrder", token_id, cancel_reason, "BUY"),
                       Call("placeOrder", token_id, cancel_reason, "SELL") >>]

\* StrategyEngine::calculateQuotes.  positions_ holds nothing for a token on
\* its first quote when the engine started without saved positions, so the
\* restore branch only records the token in restored_markets.
calculateQuotes(c, token_id, cancel_reason, t, vol) ==
    LET e == c.e
        makers == MakersAfterLookup(e.market_makers, token_id, t)
        c1 == [c EXCEPT
                 !.e.market_makers = makers,
                 !.calls = Append(@, Call("calculateQuotes", token_id, cancel_reason, ""))]
    IN  IF token_id \notin DOMAIN e.order_books
        THEN [c EXCEPT !.calls =
                 Append(@, Call("calculateQuotes", token_id, cancel_reason, ""))]
        ELSE IF ~hasValidBBO(e.order_books[token_id]) THEN c1
        ELSE IF token_id \notin DOMAIN makers THEN c1
        ELSE
        LET md == IF token_id \in DOMAIN e.market_metadata
                  THEN e.market_metadata[token_id] ELSE NoMetadata
            m0 == makers[token_id]
            v == IF vol \in VolatilityOutcomes(m0, t) THEN vol ELSE m0.volatility
        IN  With(generateQuote(m0, e.order_books[token_id], md, t, v),
                 LAMBDA r :
                    With([c1 EXCEPT
                            !.e.market_makers = MapPut(makers, token_id, r.mm),
                            !.e.restored_markets = @ \cup {token_id},
                            !.calls = Append(@, Call("generateQuote", token_id,
                                          cancel_reason,
                                          IF IsQuote(r.quote) THEN "quote" ELSE "none"))],
                         LAMBDA c2 :
                            IF IsQuote(r.quote)
                            THEN QuoteReceived(c2, token_id, cancel_reason, t, r.quote)
                            ELSE c2))

\* the requote loop of checkExpiredQuotes over expired_tokens
RECURSIVE RequoteEach(_, _, _, _)
RequoteEach(c, tokens, t, vol) ==
    IF tokens = {} THEN c
    ELSE LET token_id == CHOOSE k \in tokens : TRUE
             books == c.e.order_books
         IN  With(IF token_id \in DOMAIN books /\ hasValidBBO(books[token_id])
                  THEN calculateQuotes(c, token_id, "TTL_EXPIRED", t, vol)
                  ELSE c,
                  LAMBDA c1 : RequoteEach(c1, tokens \ {token_id}, t, vol))

\* what one sweep did, c before it and c1 after it: the active quotes before
\* and after, the books with a valid BBO, the tokens requoted in order, those
\* whose requote yielded a quote, and those requoted for an expiry an earlier
\* sweep had already requoted
SweepRecorded(c, c1, t) ==
    LET before == c.e.active_quotes
        made == SubSeq(c1.calls, Len(c.calls) + 1, Len(c1.calls))
        IsRequote(x) == x.call = "calculateQuotes"
        requotes == SelectSeq(made, IsRequote)
        tokens == {requotes[i].token_id : i \in 1..Len(requotes)}
        quoted == {made[i].token_id : i \in {j \in 1..Len(made) :
                       made[j].call = "generateQuote" /\ made[j].result = "quote"}}
        again == {k \in tokens : k \in DOMAIN c.swept
                      /\ c.swept[k].created_at = before[k].quote_created_at}
    IN  [c1 EXCEPT
           !.sweeps = Append(@,
              [at |-> t, active |-> before,
               valid |-> {k \in DOMAIN c.e.order_books : hasValidBBO(c.e.order_books[k])},
               requoted |-> [i \in 1..Len(requotes) |-> requotes[i].token_id],
               quoted |-> quoted,
               after |-> c1.e.active_quotes,
               again |-> again,
               again_after_quote |-> {k \in again : c.swept[k].quoted}]),
           !.swept = [k \in DOMAIN c.swept \cup tokens |->
                         IF k \in tokens
                         THEN [created_at |-> before[k].quote_created_at,
                               quoted |-> k \in quoted]
                         ELSE c.swept[k]]]

\* StrategyEngine::checkExpiredQuotes
checkExpiredQuotes(c, t, vol) ==
    LET quotes == c.e.active_quotes
        expired_tokens == {k \in DOMAIN quotes : isExpired(quotes[k], t)}
    IN  With(RequoteEach(c, expired_tokens, t, vol),
             LAMBDA c1 : SweepRecorded(c, c1, t))

RECURSIVE SumRealized(_, _)
SumRealized(positions, keys) ==
    IF keys = {} THEN RZero
    ELSE LET k == CHOOSE x \in keys : TRUE
         IN  RAdd(positions[k].realized_pnl, SumRealized(positions, keys \ {k}))

\* StrategyEngine::snapshotPositions: the engine's positions saved for recovery
snapshotPositions(e, t) ==
    LET state == [positions |->
                     [k \in DOMAIN e.positions |->
                         [quantity |-> e.positions[k].quantity,
                          avg_cost |-> e.positions[k].avg_entry_price,
                          realized_pnl |-> e.positions[k].realized_pnl]],
                  total_realized_pnl |-> SumRealized(e.positions, DOMAIN e.positions),
                  total_trades |-> 0, total_volume |-> RZero,
                  last_session_id |-> "session", last_updated |-> from_time_t(t)]
    IN  [e EXCEPT !.state_file = FileAfterWrite(@, StateJson(state))]

\* the part of run() after the switch
Housekeeping(c, t, vol) ==
    With(IF t - c.e.last_quote_check > QuoteCheckSeconds
         THEN [checkExpiredQuotes(c, t, vol) EXCEPT !.e.last_quote_check = t]
         ELSE c,
         LAMBDA c1 :
            IF t - c1.e.last_snapshot > SnapshotSeconds
            THEN [c1 EXCEPT !.e = [snapshotPositions(c1.e, t) EXCEPT
                                      !.as_manager = decay(@),
                                      !.last_snapshot = t]]
            ELSE c1)

\* the loops over payload.bids and payload.asks, vectors of (price, size)
RECURSIVE ApplyLevels(_, _, _)
ApplyLevels(b, side, levels) ==
    IF levels = <<>> THEN b
    ELSE ApplyLevels(IF side = "BUY" THEN updateBid(b, Head(levels)[1], Head(levels)[2])
                     ELSE updateAsk(b, Head(levels)[1], Head(levels)[2]),
                     side, Tail(levels))

\* the book handleBookSnapshot / handlePriceUpdate leave for the event's token
BookAfterEvent(e, ev) ==
    LET books == getOrCreateOrderBook(e.order_books, ev.token_id)
        b0 == IF ev.type = "BOOK_SNAPSHOT" THEN clear(books[ev.token_id])
              ELSE books[ev.token_id]
    IN  ApplyLevels(ApplyLevels(b0, "BUY", ev.bids), "SELL", ev.asks)

\* StrategyEngine::handleBookSnapshot; fills are the OrderFill events the
\* order manager pushes, in the order its pass over orders_ produced them
handleBookSnapshot(c, ev, fills, t, vol) ==
    With(BookAfterEvent(c.e, ev),
         LAMBDA b :
            With([c EXCEPT
                    !.e.order_books = MapPut(@, ev.token_id, b),
                    !.e.order_manager = updateOrderBook(@, ev.token_id, b),
                    !.e.event_queue = @ \o fills],
                 LAMBDA c1 :
                    IF ev.token_id \in DOMAIN c.e.market_metadata
                    THEN calculateQuotes(c1, ev.token_id, "QUOTE_UPDATE", t, vol)
                    ELSE c1))

\* StrategyEngine::handlePriceUpdate
handlePriceUpdate(c, ev, t, vol) ==
    With([c EXCEPT
            !.e.order_books = MapPut(@, ev.token_id, BookAfterEvent(c.e, ev)),
            !.e.as_manager =
                updateMetrics(@, ev.token_id, getMid(BookAfterEvent(c.e, ev)), t)],
         LAMBDA c1 :
            IF ev.token_id \in DOMAIN c.e.market_metadata
            THEN calculateQuotes(c1, ev.token_id, "QUOTE_UPDATE", t, vol)
            ELSE c1)

\* StrategyEngine::handleOrderFill
handleOrderFill(c, ev, t, vol) ==
    LET e == c.e
        pos0 == IF ev.token_id \in DOMAIN e.positions THEN e.positions[ev.token_id]
                ELSE NewPosition
        makers == e.market_makers
    IN  With([c EXCEPT
                !.e.total_fills = @ + 1,
                !.e.positions =
                    MapPut(@, ev.token_id,
                           updatePosition(pos0, ev.filled_size, ev.fill_price, ev.side, t)),
                !.e.market_makers =
                    IF ev.token_id \in DOMAIN makers
                    THEN MapPut(makers, ev.token_id,
                             updateInventory(makers[ev.token_id], ev.side,
                                             ev.filled_size, ev.fill_price))
                    ELSE makers,
                !.e.as_manager =
                    IF ev.token_id \in DOMAIN makers /\ ev.token_id \in DOMAIN e.order_books
                    THEN recordFill(@, ev.token_id, ev.side,
                                    getMid(e.order_books[ev.token_id]), t)
                    ELSE @],
             LAMBDA c1 : calculateQuotes(c1, ev.token_id, "QUOTE_UPDATE", t, vol))

(***************************************************************************)
(* The strategy engine: configured, started, fed by the transport and      *)
(* stopped as main() does it.  Time is counted from start().               *)
(***************************************************************************)
MaxFeedEvents == 2
MaxAdvances == 2

\* T1 is registered for trading, T2 only for observation, as the two outcome
\* tokens of one event
TradableTokens == {"T1"}
ObservedTokens == {"T2"}
EventCondition == "E1"
EndTimes == {-120}
ClockSteps == {3, 61}

FeedEvent(type, token_id, bids, asks) ==
    [type |-> type, token_id |-> token_id, bids |-> bids, asks |-> asks]

Shutdown == FeedEvent("SHUTDOWN", "", <<>>, <<>>)

Level(price, size) == <<price, size>>

FeedEvents ==
    { FeedEvent("BOOK_SNAPSHOT", "T1", <<Level(R(48, 100), 1000)>>, <<Level(R(54, 100), 800)>>),
      FeedEvent("BOOK_SNAPSHOT", "T1", <<Level(R(60, 100), 1000)>>, <<Level(R(62, 100), 800)>>),
      FeedEvent("BOOK_SNAPSHOT", "T1", <<Level(R(48, 100), 1000)>>, <<>>),
      FeedEvent("BOOK_SNAPSHOT", "T2", <<Level(R(48, 100), 1000)>>, <<Level(R(54, 100), 800)>>),
      FeedEvent("BOOK_SNAPSHOT", "T2", <<Level(R(48, 100), 1000), Level(R(48, 100), 0)>>,
                <<Level(R(55, 100), 800), Level(R(56, 100), 0)>>),
      FeedEvent("PRICE_LEVEL_UPDATE", "T1", <<>>, <<Level(R(97, 200), 500)>>),
      FeedEvent("PRICE_LEVEL_UPDATE", "T1", <<Level(R(54, 100), 500)>>, <<>>),
      FeedEvent("TIMER_TICK", "", <<>>, <<>>),
      Shutdown }

InitEngine ==
    /\ eng = NewStrategyEngine("PAPER", 0)
    /\ eng_pushed = 0
    /\ eng_advances = 0
    /\ eng_swept = <<>>

EngRegisterMarket ==
    /\ eng.thread = "unstarted"
    /\ \E token_id \in TradableTokens :
          eng' = registerMarket(eng, token_id, EventCondition, now)
    /\ last' = [op |-> "input"]
    /\ UNCHANGED <<eng_pushed, eng_advances, eng_swept, now, bookVars, queueVars, mmVars, posVars, spVars, omVars, restVars>>

EngRegisterMarketMetadata ==
    /\ eng.thread = "unstarted"
    /\ \E token_id \in ObservedTokens :
          eng' = registerMarketMetadata(eng, token_id, EventCondition)
    /\ last' = [op |-> "input"]
    /\ UNCHANGED <<eng_pushed, eng_advances, eng_swept, now, bookVars, queueVars, mmVars, posVars, spVars, omVars, restVars>>

EngSetEventEndTime ==
    /\ eng.thread = "unstarted"
    /\ \E end_time \in EndTimes : eng' = setEventEndTime(eng, EventCondition, end_time)
    /\ last' = [op |-> "input"]
    /\ UNCHANGED <<eng_pushed, eng_advances, eng_swept, now, bookVars, queueVars, mmVars, posVars, spVars, omVars, restVars>>

\* StrategyEngine::start and the first statements of run()
EngStart ==
    /\ eng.thread = "unstarted"
    /\ ~eng.running
    /\ eng' = [eng EXCEPT !.running = TRUE, !.thread = "top",
                          !.last_quote_check = now, !.last_snapshot = now]
    /\ last' = [op |-> "input"]
    /\ UNCHANGED <<eng_pushed, eng_advances, eng_swept, now, bookVars, queueVars, mmVars, posVars, spVars, omVars, restVars>>

\* StrategyEngine::stop up to the join, or all of it when running_ is
\* already false: it returns before the push and the join
EngStop ==
    /\ eng.thread # "unstarted"
    /\ eng.stop = "uncalled"
    /\ eng' = IF ~eng.running
              THEN [eng EXCEPT !.stop = "returned"]
              ELSE [eng EXCEPT !.running = FALSE,
                               !.event_queue = QueueAfterPush(@, Shutdown),
                               !.stop = "joining"]
    /\ last' = [op |-> "input"]
    /\ UNCHANGED <<eng_pushed, eng_advances, eng_swept, now, bookVars, queueVars, mmVars, posVars, spVars, omVars, restVars>>

\* the transport thread pushes a market-data event or, once it has given up
\* reconnecting, a shutdown; a timer tick comes from whoever drives the timer
EngPush ==
    /\ eng.running
    /\ eng_pushed < MaxFeedEvents
    /\ \E ev \in FeedEvents : eng' = [eng EXCEPT !.event_queue = QueueAfterPush(@, ev)]
    /\ eng_pushed' = eng_pushed + 1
    /\ last' = [op |-> "input"]
    /\ UNCHANGED <<eng_advances, eng_swept, now, bookVars, queueVars, mmVars, posVars, spVars, omVars, restVars>>

\* strategy_thread_.join() returns once run() has returned; stop() returns
EngStopJoin ==
    /\ eng.stop = "joining"
    /\ eng.thread = "done"
    /\ eng' = [eng EXCEPT !.thread = "joined", !.stop = "returned"]
    /\ last' = [op |-> "input"]
    /\ UNCHANGED <<eng_pushed, eng_advances, eng_swept, now, bookVars, queueVars, mmVars, posVars, spVars, omVars, restVars>>

EngAdvanceClock ==
    /\ eng.thread # "unstarted"
    /\ eng_advances < MaxAdvances
    /\ \E d \in ClockSteps : now' = now + d
    /\ eng_advances' = eng_advances + 1
    /\ last' = [op |-> "input"]
    /\ UNCHANGED <<eng, eng_pushed, eng_swept, bookVars, queueVars, mmVars, posVars, spVars, omVars, restVars>>

\* while (running_.load())
EngLoopTest ==
    /\ eng.thread = "top"
    /\ eng' = [eng EXCEPT !.thread = IF eng.running THEN "pop" ELSE "done"]
    /\ last' = [op |-> "input"]
    /\ UNCHANGED <<eng_pushed, eng_advances, eng_swept, now, bookVars, queueVars, mmVars, posVars, spVars, omVars, restVars>>

\* the event pop() returns to run()
Popped(type) ==
    /\ eng.thread = "pop"
    /\ eng.event_queue # <<>>
    /\ QueueFront(eng.event_queue).type = type

\* the context a loop iteration starts from, the event taken off the queue
AfterPop == NewContext([eng EXCEPT !.event_queue = QueueAfterPop(@)], eng_swept)

\* whether the book of the event's token holds a level that a snapshot
\* payload does not name
HoldsUnnamedLevel(e, ev) ==
    /\ ev.type = "BOOK_SNAPSHOT"
    /\ ev.token_id \in DOMAIN e.order_books
    /\ \/ \E x \in DOMAIN e.order_books[ev.token_id].bids :
              \A i \in DOMAIN ev.bids : ev.bids[i][1] # x
       \/ \E x \in DOMAIN e.order_books[ev.token_id].asks :
              \A i \in DOMAIN ev.asks : ev.asks[i][1] # x

\* the iteration is over: back to the loop test
EndIteration(c, ev) ==
    /\ eng' = [c.e EXCEPT !.thread = "top"]
    /\ eng_swept' = c.swept
    /\ last' = [op |-> "run", type |-> ev.type, token_id |-> ev.token_id,
                calls |-> c.calls, sweeps |-> c.sweeps,
                unnamed |-> HoldsUnnamedLevel(eng, ev)]
    /\ UNCHANGED <<eng_pushed, eng_advances, now, bookVars, queueVars, mmVars, posVars, spVars, omVars, restVars>>

EngBookSnapshot ==
    /\ Popped("BOOK_SNAPSHOT")
    /\ LET ev == QueueFront(eng.event_queue)
           b == BookAfterEvent(eng, ev)
       IN  \E vol \in Volatilities,
              fills \in Orderings(FillEvents(eng.order_manager, ev.token_id, b)) :
              \E c1 \in {handleBookSnapshot(AfterPop, ev, fills, now, vol)} :
                 \E c2 \in {Housekeeping(c1, now, vol)} : EndIteration(c2, ev)

EngPriceUpdate ==
    /\ Popped("PRICE_LEVEL_UPDATE")
    /\ LET ev == QueueFront(eng.event_queue)
       IN  \E vol \in Volatilities :
              \E c1 \in {handlePriceUpdate(AfterPop, ev, now, vol)} :
                 \E c2 \in {Housekeeping(c1, now, vol)} : EndIteration(c2, ev)

EngOrderFill ==
    /\ Popped("ORDER_FILL")
    /\ LET ev == QueueFront(eng.event_queue)
       IN  \E vol \in Volatilities :
              \E c1 \in {handleOrderFill(AfterPop, ev, now, vol)} :
                 \E c2 \in {Housekeeping(c1, now, vol)} : EndIteration(c2, ev)

EngTimerTick ==
    /\ Popped("TIMER_TICK")
    /\ LET ev == QueueFront(eng.event_queue)
       IN  \E vol \in Volatilities :
              \E c1 \in {checkExpiredQuotes(AfterPop, now, vol)} :
                 \E c2 \in {Housekeeping(c1, now, vol)} : EndIteration(c2, ev)

EngShutdown ==
    /\ Popped("SHUTDOWN")
    /\ LET ev == QueueFront(eng.event_queue)
       IN  \E vol \in Volatilities :
              \E c1 \in {[AfterPop EXCEPT !.e.running = FALSE]} :
                 \E c2 \in {Housekeeping(c1, now, vol)} : EndIteration(c2, ev)

NextEngine ==
    \/ EngRegisterMarket
    \/ EngRegisterMarketMetadata
    \/ EngSetEventEndTime
    \/ EngStart
    \/ EngStop
    \/ EngStopJoin
    \/ EngPush
    \/ EngAdvanceClock
    \/ EngLoopTest
    \/ EngBookSnapshot
    \/ EngPriceUpdate
    \/ EngOrderFill
    \/ EngTimerTick
    \/ EngShutdown

(***************************************************************************)
(* The same engine fed with snapshots of T1 only, one more of them and no  *)
(* clock advance: a wide book, a higher wide book, and a book half a cent  *)
(* wide whose bid reaches the ask quoted on the first.                     *)
(***************************************************************************)
MaxSnapshots == 3

SnapshotFeed ==
    { FeedEvent("BOOK_SNAPSHOT", "T1", <<Level(R(48, 100), 1000)>>, <<Level(R(54, 100), 800)>>),
      FeedEvent("BOOK_SNAPSHOT", "T1", <<Level(R(60, 100), 1000)>>, <<Level(R(62, 100), 800)>>),
      FeedEvent("BOOK_SNAPSHOT", "T1", <<Level(R(52, 100), 1000)>>, <<Level(R(105, 200), 800)>>) }

EngPushSnapshot ==
    /\ eng.running
    /\ eng_pushed < MaxSnapshots
    /\ \E ev \in SnapshotFeed : eng' = [eng EXCEPT !.event_queue = QueueAfterPush(@, ev)]
    /\ eng_pushed' = eng_pushed + 1
    /\ last' = [op |-> "input"]
    /\ UNCHANGED <<eng_advances, eng_swept, now, bookVars, queueVars, mmVars, posVars, spVars, omVars, restVars>>

NextSnapshots ==
    \/ EngRegisterMarket
    \/ EngStart
    \/ EngPushSnapshot
    \/ EngLoopTest
    \/ EngBookSnapshot
    \/ EngOrderFill

(***************************************************************************)
(* The same engine fed with three book events of T1 while the clock moves: *)
(* a snapshot that gets a pair of orders placed, a lower snapshot whose    *)
(* ask fills the resting buy order, and snapshots or price updates after   *)
(* the fill was recorded by the adverse-selection monitor.                 *)
(***************************************************************************)
MaxBookEvents == 3

BookEventFeed ==
    { FeedEvent("BOOK_SNAPSHOT", "T1", <<Level(R(60, 100), 1000)>>, <<Level(R(62, 100), 800)>>),
      FeedEvent("BOOK_SNAPSHOT", "T1", <<Level(R(48, 100), 1000)>>, <<Level(R(54, 100), 800)>>),
      FeedEvent("PRICE_LEVEL_UPDATE", "T1", <<>>, <<Level(R(53, 100), 500)>>) }

EngPushBookEvent ==
    /\ eng.running
    /\ eng_pushed < MaxBookEvents
    /\ \E ev \in BookEventFeed : eng' = [eng EXCEPT !.event_queue = QueueAfterPush(@, ev)]
    /\ eng_pushed' = eng_pushed + 1
    /\ last' = [op |-> "input"]
    /\ UNCHANGED <<eng_advances, eng_swept, now, bookVars, queueVars, mmVars, posVars, spVars, omVars, restVars>>

NextBookEvents ==
    \/ EngRegisterMarket
    \/ EngStart
    \/ EngPushBookEvent
    \/ EngAdvanceClock
    \/ EngLoopTest
    \/ EngBookSnapshot
    \/ EngPriceUpdate
    \/ EngOrderFill

(***************************************************************************)
(* The same engine fed with a falling market of T1: snapshot after         *)
(* snapshot, each one's ask five cents below the bid of the one before, so *)
(* that every snapshot crosses the buy order quoted on the previous one.   *)
(* The transport is slower than the worker: it pushes the next snapshot    *)
(* when the queue is empty.                                                *)
(***************************************************************************)
MaxLadder == 12

\* the k-th snapshot of the falling market: bid 0.95 - 0.07 k, two cents wide
LadderSnapshot(k) ==
    FeedEvent("BOOK_SNAPSHOT", "T1",
              <<Level(R(95 - 7 * k, 100), 1000)>>, <<Level(R(97 - 7 * k, 100), 800)>>)

EngPushLadder ==
    /\ eng.running
    /\ eng.event_queue = <<>>
    /\ eng_pushed < MaxLadder
    /\ eng' = [eng EXCEPT !.event_queue = QueueAfterPush(@, LadderSnapshot(eng_pushed))]
    /\ eng_pushed' = eng_pushed + 1
    /\ last' = [op |-> "input"]
    /\ UNCHANGED <<eng_advances, eng_swept, now, bookVars, queueVars, mmVars, posVars, spVars, omVars, restVars>>

NextLadder ==
    \/ EngRegisterMarket
    \/ EngStart
    \/ EngPushLadder
    \/ EngLoopTest
    \/ EngBookSnapshot
    \/ EngOrderFill

(***************************************************************************)
(* The same engine fed with a book of T1 that thins out: a snapshot that   *)
(* gets a pair of orders placed, a lower snapshot whose ask fills the      *)
(* resting buy order, and a price update that removes the only ask level,  *)
(* which leaves T1 without a valid BBO, while the clock moves.             *)
(***************************************************************************)
ThinningFeed ==
    { FeedEvent("BOOK_SNAPSHOT", "T1", <<Level(R(60, 100), 1000)>>, <<Level(R(62, 100), 800)>>),
      FeedEvent("BOOK_SNAPSHOT", "T1", <<Level(R(48, 100), 1000)>>, <<Level(R(54, 100), 800)>>),
      FeedEvent("PRICE_LEVEL_UPDATE", "T1", <<>>, <<Level(R(54, 100), 0)>>) }

EngPushThinning ==
    /\ eng.running
    /\ eng_pushed < MaxBookEvents
    /\ \E ev \in ThinningFeed : eng' = [eng EXCEPT !.event_queue = QueueAfterPush(@, ev)]
    /\ eng_pushed' = eng_pushed + 1
    /\ last' = [op |-> "input"]
    /\ UNCHANGED <<eng_advances, eng_swept, now, bookVars, queueVars, mmVars, posVars, spVars, omVars, restVars>>

NextThinning ==
    \/ EngRegisterMarket
    \/ EngStart
    \/ EngPushThinning
    \/ EngAdvanceClock
    \/ EngLoopTest
    \/ EngBookSnapshot
    \/ EngPriceUpdate
    \/ EngOrderFill

(***************************************************************************)
(* The same engine with a transport that falls silent: snapshots of T1     *)
(* while the clock moves, a worker thread that is always scheduled when it *)
(* can take a step, and time that passes; nothing obliges the producers to *)
(* push another event.                                                     *)
(***************************************************************************)
NextIdle ==
    \/ EngRegisterMarket
    \/ EngSetEventEndTime
    \/ EngStart
    \/ EngPushSnapshot
    \/ EngAdvanceClock
    \/ EngLoopTest
    \/ EngBookSnapshot
    \/ EngOrderFill

\* pop() can return: the worker is in pop() and the queue holds an event.
\* This is when one of the handler actions is enabled, and a handler step
\* leaves it, so weak fairness of the handler steps is []<>~PopCanReturn.
PopCanReturn == eng.thread = "pop" /\ eng.event_queue # <<>>

WorkerScheduled == WF_vars(EngLoopTest) /\ []<>~PopCanReturn

(***************************************************************************)
(* The same engine stopped by stop() while the transport pushes book       *)
(* events of T1 and never a shutdown of its own: the only Shutdown event   *)
(* is the one stop() pushes.                                               *)
(***************************************************************************)
NextStop ==
    \/ EngRegisterMarket
    \/ EngStart
    \/ EngPushBookEvent
    \/ EngStop
    \/ EngStopJoin
    \/ EngLoopTest
    \/ EngBookSnapshot
    \/ EngPriceUpdate
    \/ EngOrderFill
    \/ EngShutdown

(***************************************************************************)
(* One AdverseSelectionManager driven through its public methods: fills of *)
(* both sides on two tokens, mids that moved for, against or not at all,   *)
(* and the periodic decay.                                                 *)
(***************************************************************************)
MaxASFills == 2
MaxASTicks == 2
MaxDecays == 2
ASMids == {R(47, 100), R(50, 100), R(53, 100)}
ASClockSteps == {CaptureEarlySeconds, CaptureSeconds}

InitAS ==
    /\ as_manager = NewAdverseSelectionManager
    /\ as_fills = 0
    /\ as_ticks = 0
    /\ as_decays = 0

asFrame == <<bookVars, queueVars, mmVars, posVars, spVars, omVars, engVars, threadVars, phaseVars, wsVars, feedVars, restoreVars>>

ASRecordFill ==
    /\ as_fills < MaxASFills
    /\ \E token_id \in Tokens, side \in Sides :
        as_manager' = recordFill(as_manager, token_id, side, R(50, 100), now)
    /\ as_fills' = as_fills + 1
    /\ last' = [op |-> "recordFill"]
    /\ UNCHANGED <<asFrame, now, as_ticks, as_decays>>

ASUpdateMetrics ==
    /\ \E token_id \in Tokens, current_mid \in ASMids :
        /\ as_manager' = updateMetrics(as_manager, token_id, current_mid, now)
        /\ last' = [op |-> "updateMetrics", token_id |-> token_id]
    /\ UNCHANGED <<asFrame, now, as_fills, as_ticks, as_decays>>

ASDecay ==
    /\ as_decays < MaxDecays
    /\ as_manager' = decay(as_manager)
    /\ as_decays' = as_decays + 1
    /\ last' = [op |-> "decay"]
    /\ UNCHANGED <<asFrame, now, as_fills, as_ticks>>

ASTick ==
    /\ as_ticks < MaxASTicks
    /\ \E d \in ASClockSteps : now' = now + d
    /\ as_ticks' = as_ticks + 1
    /\ last' = [op |-> "input"]
    /\ UNCHANGED <<asFrame, as_manager, as_fills, as_decays>>

NextAS ==
    \/ ASRecordFill
    \/ ASUpdateMetrics
    \/ ASDecay
    \/ ASTick

(***************************************************************************)
(* One MarketMetadata object asked for its phase and TTL at end times on   *)
(* both sides of every threshold, as the clock advances second by second.  *)
(***************************************************************************)
MaxPhaseClock == 3
PhaseEndTimes ==
    {-121, -120, -61, -60, -59, -1, 0, 1, 2, 59, 60, 61, 599, 600, 601, 602,
     3599, 3600, 3601, 3602, 10800}

InitPhase ==
    /\ phase_md = NewMarketMetadata(EventCondition)
    /\ phase_seen = [asked |-> FALSE]

phaseFrame == <<bookVars, queueVars, mmVars, posVars, spVars, omVars, engVars, threadVars, asVars, wsVars, feedVars, restoreVars>>

\* metadata.event_end_time = ...; metadata.has_end_time = true
PhaseSetEndTime ==
    /\ \E end_time \in PhaseEndTimes :
          phase_md' = [phase_md EXCEPT !.has_end_time = TRUE, !.event_end_time = end_time]
    /\ last' = [op |-> "input"]
    /\ UNCHANGED <<phaseFrame, now, phase_seen>>

PhaseTick ==
    /\ now < MaxPhaseClock
    /\ now' = now + 1
    /\ last' = [op |-> "input"]
    /\ UNCHANGED <<phaseFrame, phase_md, phase_seen>>

\* getMarketPhase() and getRecommendedTTL() of the object, and the TTL of a
\* quote made with it and of one made without metadata
PhaseAsk ==
    /\ phase_seen' = [asked |-> TRUE, md |-> phase_md, at |-> now,
                      phase |-> getMarketPhase(phase_md, now),
                      ttl |-> getRecommendedTTL(phase_md, now),
                      quote_ttl |-> QuoteTTL(phase_md, now),
                      quote_ttl_without |-> QuoteTTL(NoMetadata, now)]
    /\ last' = [op |-> "input"]
    /\ UNCHANGED <<phaseFrame, now, phase_md>>

NextPhase ==
    \/ PhaseSetEndTime
    \/ PhaseTick
    \/ PhaseAsk

(***************************************************************************)
(* PolymarketWebSocketClient: its flags, its thread, the reconnect policy  *)
(* and counter.  slept lists the delays attemptReconnect has slept,        *)
(* connect_calls counts the connect() calls it has made, pushed the events *)
(* it has pushed; all three are bookkeeping of the model.                  *)
(***************************************************************************)
DefaultMaxReconnectAttempts == 5
DefaultReconnectBackoff == 5

NewWebSocketClient ==
    [running |-> FALSE, connected |-> FALSE, thread |-> "none", reading |-> FALSE,
     ioc_stopped |-> FALSE,
     max_reconnect_attempts |-> DefaultMaxReconnectAttempts,
     reconnect_backoff |-> DefaultReconnectBackoff, reconnect_attempt |-> 0,
     slept |-> <<>>, connect_calls |-> 0, pushed |-> <<>>]

setReconnectConfig(w, max_attempts, backoff) ==
    [w EXCEPT !.max_reconnect_attempts = max_attempts, !.reconnect_backoff = backoff]

\* connect() from the moment it starts the thread: run() reaches the server
\* and arms the read (up), or throws and returns; connect() itself returns
\* normally either way, after waiting for connected_ at most 5 seconds
connect(w, up) ==
    IF w.running THEN w
    ELSE IF up
    THEN [w EXCEPT !.running = TRUE, !.thread = "running", !.connected = TRUE,
                   !.reading = TRUE, !.ioc_stopped = FALSE]
    ELSE [w EXCEPT !.running = FALSE, !.thread = "finished", !.connected = FALSE,
                   !.reading = FALSE]

\* ws_thread_.join() throws resource_deadlock_would_occur when the thread
\* that calls it is ws_thread_ itself
JoinThrows(w, caller) == w.thread = "running" /\ caller = "ws_thread"

\* attemptReconnect(), its recursion from the catch block included; caller
\* is the thread it runs on and up whether the server can be reached
RECURSIVE attemptReconnect(_, _, _)
attemptReconnect(w, caller, up) ==
    LET attempt == w.reconnect_attempt + 1
    IN  IF attempt > w.max_reconnect_attempts
        THEN [w EXCEPT !.reconnect_attempt = attempt, !.pushed = Append(@, "SHUTDOWN")]
        ELSE LET cleaning == [w EXCEPT !.reconnect_attempt = attempt,
                                       !.slept = Append(@, w.reconnect_backoff * attempt),
                                       !.running = FALSE, !.connected = FALSE,
                                       !.ioc_stopped = TRUE]
             IN  IF JoinThrows(cleaning, caller)
                 THEN attemptReconnect(cleaning, caller, up)
                 ELSE [connect([cleaning EXCEPT !.thread = "joined"], up)
                          EXCEPT !.connect_calls = @ + 1, !.reconnect_attempt = 0]

\* handleDisconnection(), called by the read callback on ws_thread_
handleDisconnection(w, up) ==
    IF ~w.running THEN [w EXCEPT !.connected = FALSE]
    ELSE attemptReconnect([w EXCEPT !.connected = FALSE], "ws_thread", up)

(***************************************************************************)
(* One client: main configures and connects it, the connection is lost or  *)
(* main disconnects, and the read callback that reports the loss may run   *)
(* before or after disconnect() has cleared running_.                      *)
(***************************************************************************)
MaxReconnectAttempts == 3
Backoffs == {1, 2, DefaultReconnectBackoff}

InitWS == ws = NewWebSocketClient

wsFrame == <<bookVars, queueVars, now, mmVars, posVars, spVars, omVars, engVars,
             threadVars, asVars, phaseVars, feedVars, restoreVars>>

WSSetReconnectConfig ==
    /\ ws.thread = "none"
    /\ \E max_attempts \in 0..MaxReconnectAttempts, backoff \in Backoffs :
          ws' = setReconnectConfig(ws, max_attempts, backoff)
    /\ last' = [op |-> "input"]
    /\ UNCHANGED wsFrame

WSConnect ==
    /\ ws.thread = "none"
    /\ \E up \in BOOLEAN : ws' = connect(ws, up)
    /\ last' = [op |-> "input"]
    /\ UNCHANGED wsFrame

\* the async_read callback gets an error other than operation_aborted
WSTransportLoss ==
    /\ ws.thread = "running"
    /\ ws.reading
    /\ \E up \in BOOLEAN :
          ws' = handleDisconnection([ws EXCEPT !.reading = FALSE], up)
    /\ last' = [op |-> "handleDisconnection", attempt_before |-> ws.reconnect_attempt,
                running_before |-> ws.running]
    /\ UNCHANGED wsFrame

\* disconnect() up to the join
WSDisconnect ==
    /\ ws.running
    /\ ws' = [ws EXCEPT !.running = FALSE, !.connected = FALSE, !.ioc_stopped = TRUE]
    /\ last' = [op |-> "input"]
    /\ UNCHANGED wsFrame

\* ioc_->run() returns, stopped or out of work, and run() with it
WSRunReturns ==
    /\ ws.thread = "running"
    /\ ws.ioc_stopped \/ ~ws.reading
    /\ ws' = [ws EXCEPT !.thread = "finished", !.connected = FALSE, !.running = FALSE,
                        !.reading = FALSE]
    /\ last' = [op |-> "input"]
    /\ UNCHANGED wsFrame

NextWS ==
    \/ WSSetReconnectConfig
    \/ WSConnect
    \/ WSTransportLoss
    \/ WSDisconnect
    \/ WSRunReturns

(***************************************************************************)
(* PolymarketWebSocketClient::handleMessage and the parsers under it.  A   *)
(* frame is the text of one websocket message: not JSON at all, one JSON   *)
(* value, or a JSON array of values.  A value that carries data is a book  *)
(* message or a price_change message; defect says what is wrong with it:   *)
(* "type" a member of the wrong type or a price that std::stod rejects,    *)
(* "missing" a member that is not there.                                   *)
(***************************************************************************)
Defects == {"none", "type", "missing"}

BookMessage(asset_id, defect) ==
    [event_type |-> "book", asset_id |-> asset_id, defect |-> defect]
Change(asset_id, side, defect) ==
    [asset_id |-> asset_id, side |-> side, defect |-> defect]
PriceChangeMessage(changes) ==
    [event_type |-> "price_change", price_changes |-> changes]
OtherMessage == [event_type |-> "last_trade_price"]
UntypedMessage == [event_type |-> "absent"]

InvalidText == [text |-> "invalid", items |-> <<>>]
SingleFrame(msg) == [text |-> "value", items |-> <<msg>>]
ArrayFrame(msgs) == [text |-> "array", items |-> msgs]

\* what a parser leaves behind: the events it pushed, and whether it threw
\* or took the process down
Parsed(events, outcome) == [events |-> events, outcome |-> outcome]

\* a member read through const operator[] that is absent is undefined
\* behaviour: the assertion aborts, or the value read makes the conversion
\* throw; missing says which
DefectOutcome(defect, missing) ==
    CASE defect = "none" -> "ok"
      [] defect = "type" -> "thrown"
      [] defect = "missing" -> missing

parseBookMessage(msg, missing) ==
    IF msg.defect = "none"
    THEN Parsed(<<[type |-> "BOOK_SNAPSHOT", token_id |-> msg.asset_id, side |-> "BOTH"]>>, "ok")
    ELSE Parsed(<<>>, DefectOutcome(msg.defect, missing))

\* the loop over price_changes pushes one event per change until one fails
RECURSIVE parseChanges(_, _, _)
parseChanges(changes, i, missing) ==
    IF i > Len(changes) THEN Parsed(<<>>, "ok")
    ELSE IF changes[i].defect # "none"
    THEN Parsed(<<>>, DefectOutcome(changes[i].defect, missing))
    ELSE LET rest == parseChanges(changes, i + 1, missing)
         IN  Parsed(<<[type |-> "PRICE_LEVEL_UPDATE", token_id |-> changes[i].asset_id,
                       side |-> changes[i].side]>> \o rest.events, rest.outcome)

parsePriceChangeMessage(msg, missing) == parseChanges(msg.price_changes, 1, missing)

parseMessage(msg, missing) ==
    CASE msg.event_type = "absent" -> Parsed(<<>>, "ok")
      [] msg.event_type = "book" -> parseBookMessage(msg, missing)
      [] msg.event_type = "price_change" -> parsePriceChangeMessage(msg, missing)
      [] OTHER -> Parsed(<<>>, "ok")

\* the loop over the items of an array, inside handleMessage's try block
RECURSIVE parseItems(_, _, _)
parseItems(items, i, missing) ==
    IF i > Len(items) THEN Parsed(<<>>, "ok")
    ELSE LET first == parseMessage(items[i], missing)
         IN  IF first.outcome # "ok" THEN first
             ELSE LET rest == parseItems(items, i + 1, missing)
                  IN  Parsed(first.events \o rest.events, rest.outcome)

handleMessage(f, frame, missing) ==
    IF frame.text = "invalid" THEN [f EXCEPT !.errors = @ + 1]
    ELSE LET p == parseItems(frame.items, 1, missing)
         IN  [f EXCEPT !.pushed = @ \o p.events,
                       !.errors = IF p.outcome = "thrown" THEN @ + 1 ELSE @,
                       !.alive = p.outcome # "aborted"]

(***************************************************************************)
(* The read callback hands one frame after another to handleMessage.       *)
(***************************************************************************)
MaxFrames == 2

FeedChanges ==
    {Change("T1", side, defect) : side \in {"BUY", "SELL"}, defect \in Defects}
FeedMessages ==
    {BookMessage("T1", defect) : defect \in Defects}
    \cup {PriceChangeMessage(<<c>>) : c \in FeedChanges}
    \cup {PriceChangeMessage(<<c, Change("T1", "SELL", "none")>>) : c \in FeedChanges}
    \cup {PriceChangeMessage(<<Change("T1", "BUY", "none"), c>>) : c \in FeedChanges}
    \cup {OtherMessage, UntypedMessage}
Frames ==
    {InvalidText}
    \cup {SingleFrame(msg) : msg \in FeedMessages}
    \cup {ArrayFrame(<<m1, m2>>) : m1 \in FeedMessages, m2 \in {BookMessage("T1", "none"), BookMessage("T1", "type"), PriceChangeMessage(<<Change("T1", "BUY", "none")>>)}}

InitFeed == feed = [pushed |-> <<>>, errors |-> 0, alive |-> TRUE, frames |-> 0]

feedFrame == <<bookVars, queueVars, now, mmVars, posVars, spVars, omVars, engVars,
               threadVars, asVars, phaseVars, wsVars, restoreVars>>

FeedHandleMessage ==
    /\ feed.alive
    /\ feed.frames < MaxFrames
    /\ \E frame \in Frames, missing \in {"thrown", "aborted"} :
          /\ feed' = [handleMessage(feed, frame, missing) EXCEPT !.frames = @ + 1]
          /\ last' = [op |-> "handleMessage", frame |-> frame, before |-> feed]
    /\ UNCHANGED feedFrame

NextFeed == FeedHandleMessage

(***************************************************************************)
(* Engines of one process, one after the other, and the restore step at    *)
(* the head of calculateQuotes.  restored_markets is a function-local      *)
(* static of calculateQuotes: one set for the process, not a member of the *)
(* engine.  restores counts the restoreState calls made on the makers of   *)
(* the current engine and quoted holds the tokens it has generated a quote *)
(* for; both are bookkeeping of the model.                                 *)
(***************************************************************************)
RestoreThreshold == R(1, 1000)

\* MarketMaker::restoreState: declared in market_maker.hpp, its body is not
\* among the sources; it takes over the three values it is given
restoreState(maker, inventory, avg_cost, realized_pnl) ==
    [maker EXCEPT !.inventory = inventory, !.avg_cost = avg_cost,
               !.realized_pnl = realized_pnl]

\* the constructor's loop over loaded_state.positions
PositionsOfState(loaded, t) ==
    [k \in DOMAIN loaded.positions |->
        [NewPosition EXCEPT
            !.quantity = loaded.positions[k].quantity,
            !.avg_entry_price = loaded.positions[k].avg_cost,
            !.realized_pnl = loaded.positions[k].realized_pnl,
            !.opened_at = TimeAt(t), !.last_updated = TimeAt(t),
            !.entry_side = IF RGt(loaded.positions[k].quantity, RZero) THEN "BUY" ELSE "SELL"]]

\* whether the restore step of calculateQuotes calls restoreState
RestoreDue(restored_markets, positions, token_id) ==
    /\ token_id \notin restored_markets
    /\ token_id \in DOMAIN positions
    /\ RGt(RAbs(positions[token_id].quantity), RestoreThreshold)

RestoredAfter(restored_markets, token_id) == restored_markets \cup {token_id}

MaxEngines == 2
MaxQuoteCalls == 3

PersistedQuantities == {RZero, R(1, 2000), RInt(500), RInt(-300)}
PersistedStates ==
    {NewTradingState}
    \cup {[NewTradingState EXCEPT
              !.positions = [k \in {"T1"} |->
                  [quantity |-> q, avg_cost |-> R(55, 100), realized_pnl |-> RInt(250)]]] :
            q \in PersistedQuantities}
    \cup {[NewTradingState EXCEPT
              !.positions = [k \in {"T1", "T2"} |->
                  [quantity |-> IF k = "T1" THEN q ELSE RInt(-300),
                   avg_cost |-> R(45, 100), realized_pnl |-> RInt(-50)]]] :
            q \in PersistedQuantities}

InitRestore ==
    rs = [restored_markets |-> {}, engines |-> 0, positions |-> <<>>,
          market_makers |-> <<>>, restores |-> [k \in Tokens |-> 0], quoted |-> {},
          calls |-> 0]

restoreFrame == <<bookVars, queueVars, now, mmVars, posVars, spVars, omVars, engVars,
                  threadVars, asVars, phaseVars, wsVars, feedVars>>

\* an engine is constructed over the saved state and both markets are
\* registered with it; the engine before it, if any, is gone
RestoreNewEngine ==
    /\ rs.engines < MaxEngines
    /\ \E loaded \in PersistedStates :
          rs' = [rs EXCEPT
                   !.engines = @ + 1,
                   !.positions = PositionsOfState(loaded, 0),
                   !.market_makers =
                       [k \in Tokens |-> NewMarketMaker(DefaultSpreadPct, DefaultMaxPosition, 0)],
                   !.restores = [k \in Tokens |-> 0],
                   !.quoted = {}, !.calls = 0]
    /\ last' = [op |-> "input"]
    /\ UNCHANGED restoreFrame

\* calculateQuotes for a tradable token whose book has a valid BBO, up to
\* the call of generateQuote
RestoreCalculateQuotes ==
    /\ rs.engines > 0
    /\ rs.calls < MaxQuoteCalls
    /\ \E token_id \in Tokens :
          LET due == RestoreDue(rs.restored_markets, rs.positions, token_id)
              held == rs.positions[token_id]
              makers == IF due
                        THEN [rs.market_makers EXCEPT ![token_id] =
                                 restoreState(@, held.quantity, held.avg_entry_price,
                                              held.realized_pnl)]
                        ELSE rs.market_makers
          IN  /\ rs' = [rs EXCEPT
                          !.restored_markets = RestoredAfter(@, token_id),
                          !.market_makers = makers,
                          !.restores[token_id] = IF due THEN @ + 1 ELSE @,
                          !.quoted = @ \cup {token_id},
                          !.calls = @ + 1]
              /\ last' = [op |-> "calculateQuotes", token_id |-> token_id,
                          first |-> token_id \notin rs.quoted,
                          quoting |-> makers[token_id]]
    /\ UNCHANGED restoreFrame

NextRestore == RestoreNewEngine \/ RestoreCalculateQuotes

(***************************************************************************)
(* The strategy thread and main's status thread as two sequences of        *)
(* accesses to the engine's members.  An access names the members it       *)
(* touches, whether it mutates them, the mutex it holds meanwhile ("none"  *)
(* when it holds none) and whether the member is a std::atomic.            *)
(***************************************************************************)
Access(objects, mode, lock, atomic) ==
    [objects |-> objects, mode |-> mode, lock |-> lock, atomic |-> atomic]

HandlerTypes == {"BOOK_SNAPSHOT", "ORDER_FILL"}

\* What one iteration of run() touches, in the order of the handler's code.
StrategyAccesses(type) ==
    IF type = "BOOK_SNAPSHOT"
    THEN << Access({"market_metadata"}, "read", "none", FALSE),
            Access({"order_books"}, "write", "none", FALSE),
            Access({"positions", "order_books"}, "read", "positions_mutex", FALSE),
            Access({"orders"}, "write", "none", FALSE),
            Access({"order_books", "market_makers"}, "read", "none", FALSE),
            Access({"positions"}, "read", "positions_mutex", FALSE),
            Access({"market_makers"}, "write", "none", FALSE),
            Access({"active_quotes"}, "write", "quotes_mutex", FALSE),
            Access({"orders"}, "write", "none", FALSE) >>
    ELSE << Access({"market_metadata"}, "read", "none", FALSE),
            Access({"order_books", "market_makers"}, "read", "none", FALSE),
            Access({"total_fills"}, "write", "none", TRUE),
            Access({"positions"}, "write", "positions_mutex", FALSE),
            Access({"market_makers"}, "write", "none", FALSE),
            Access({"active_quotes"}, "read", "quotes_mutex", FALSE),
            Access({"positions"}, "write", "positions_mutex", FALSE) >>

\* The getters one round of the status thread calls, in order.
StatusAccesses ==
    << Access({"positions"}, "read", "positions_mutex", FALSE),
       Access({"orders"}, "read", "none", FALSE),
       Access({"orders"}, "read", "none", FALSE),
       Access({"orders"}, "read", "none", FALSE),
       Access({"market_metadata", "orders"}, "read", "none", FALSE),
       Access({"positions"}, "read", "positions_mutex", FALSE),
       Access({"positions", "order_books"}, "read", "positions_mutex", FALSE),
       Access({"positions"}, "read", "positions_mutex", FALSE),
       Access({"order_books"}, "read", "none", FALSE),
       Access({"total_fills"}, "read", "none", TRUE) >>

StatusGetters ==
    << "getPositionCount", "getActiveOrderCount", "getBidCount", "getAskCount",
       "getActiveMarketCount", "getTotalPnL", "getUnrealizedPnL", "getTotalInventory",
       "getAverageSpread", "getFillCount" >>

StrategyAccess == StrategyAccesses(strategy_thread.type)[strategy_thread.pc]
StatusAccess == StatusAccesses[status_thread.pc]

\* The mutex a thread holds: the one of the access it is inside of.
Holds(thread, access) == IF thread.inside THEN access.lock ELSE "none"

InitThreads ==
    /\ strategy_thread = [type |-> "BOOK_SNAPSHOT", pc |-> 1, inside |-> FALSE]
    /\ status_thread = [pc |-> 1, inside |-> FALSE]

threadFrame == <<bookVars, queueVars, now, mmVars, posVars, spVars, omVars, engVars, asVars, phaseVars, wsVars, feedVars, restoreVars>>

\* The strategy thread reaches its next access, taking the access's mutex.
StrategyEnter ==
    /\ ~strategy_thread.inside
    /\ StrategyAccess.lock = "none" \/ Holds(status_thread, StatusAccess) # StrategyAccess.lock
    /\ strategy_thread' = [strategy_thread EXCEPT !.inside = TRUE]
    /\ last' = [op |-> "input"]
    /\ UNCHANGED <<threadFrame, status_thread>>

\* The strategy thread finishes the access and releases its mutex.
StrategyLeave ==
    /\ strategy_thread.inside
    /\ strategy_thread.pc < Len(StrategyAccesses(strategy_thread.type))
    /\ strategy_thread' = [strategy_thread EXCEPT !.inside = FALSE, !.pc = @ + 1]
    /\ last' = [op |-> "input"]
    /\ UNCHANGED <<threadFrame, status_thread>>

\* The handler returns and run() pops the next event.
StrategyNextEvent ==
    /\ strategy_thread.inside
    /\ strategy_thread.pc = Len(StrategyAccesses(strategy_thread.type))
    /\ \E type \in HandlerTypes :
        strategy_thread' = [type |-> type, pc |-> 1, inside |-> FALSE]
    /\ last' = [op |-> "input"]
    /\ UNCHANGED <<threadFrame, status_thread>>

\* The status thread enters its next getter, taking the getter's mutex.
StatusEnter ==
    /\ ~status_thread.inside
    /\ StatusAccess.lock = "none" \/ Holds(strategy_thread, StrategyAccess) # StatusAccess.lock
    /\ status_thread' = [status_thread EXCEPT !.inside = TRUE]
    /\ last' = [op |-> "input"]
    /\ UNCHANGED <<threadFrame, strategy_thread>>

\* The getter returns; after the last one the thread sleeps and starts over.
StatusLeave ==
    /\ status_thread.inside
    /\ status_thread' = [inside |-> FALSE,
                         pc |-> IF status_thread.pc = Len(StatusAccesses) THEN 1
                                ELSE status_thread.pc + 1]
    /\ last' = [op |-> "input"]
    /\ UNCHANGED <<threadFrame, strategy_thread>>

NextThreads ==
    \/ StrategyEnter
    \/ StrategyLeave
    \/ StrategyNextEvent
    \/ StatusEnter
    \/ StatusLeave

Init ==
    /\ book = EmptyBook
    /\ last = [op |-> "init"]
    /\ InitQueue
    /\ now = 0
    /\ InitMM
    /\ InitPos
    /\ InitPersist
    /\ InitOM
    /\ InitEngine
    /\ InitThreads
    /\ InitAS
    /\ InitPhase
    /\ InitWS
    /\ InitFeed
    /\ InitRestore

SpecBook == Init /\ [][NextBook]_vars
SpecQueue == Init /\ [][NextQueue]_vars
SpecMM == Init /\ [][NextMM]_vars
SpecPos == Init /\ [][NextPos]_vars
SpecPersist == Init /\ [][NextPersist]_vars
SpecOM == Init /\ [][NextOM]_vars
SpecEngine == Init /\ [][NextEngine]_vars
SpecSnapshots == Init /\ [][NextSnapshots]_vars
SpecThreads == Init /\ [][NextThreads]_vars
SpecBookEvents == Init /\ [][NextBookEvents]_vars
SpecStop == Init /\ [][NextStop]_vars
SpecLadder == Init /\ [][NextLadder]_vars
SpecThinning == Init /\ [][NextThinning]_vars
SpecIdle == Init /\ [][NextIdle]_vars /\ WorkerScheduled /\ WF_vars(EngAdvanceClock)
SpecAS == Init /\ [][NextAS]_vars
SpecPhase == Init /\ [][NextPhase]_vars
SpecWS == Init /\ [][NextWS]_vars
SpecFeed == Init /\ [][NextFeed]_vars
SpecRestore == Init /\ [][NextRestore]_vars

(***************************************************************************)
(* C4: with several threads pushing and one consumer popping, every pushed *)
(* event is returned by pop exactly once, the events of one producer are   *)
(* popped in the order it pushed them, and the consumer sees the events in *)
(* enqueue order.                                                          *)
(***************************************************************************)
EventsOf(seq, t) == SelectSeq(seq, LAMBDA e : e[1] = t)

C4_QueueFifoExactlyOnce ==
    /\ eq_popped \o eq_queue = eq_log
    /\ \A t \in Threads :
          EventsOf(eq_popped \o eq_queue, t) = [k \in 1..eq_sent[t] |-> <<t, k>>]
    /\ \A i, j \in 1..Len(eq_popped) : i # j => eq_popped[i] # eq_popped[j]

\* two producers' events have been popped, interleaved, while more are queued
C4_Witness ==
    /\ Len(eq_popped) >= 3
    /\ eq_popped[1][1] # eq_popped[2][1]
    /\ eq_popped[1][1] = eq_popped[3][1]
    /\ eq_queue # <<>>
    /\ eq_pc[Consumer] = "idle"

(***************************************************************************)
(* C8: after any sequence of update_bid, update_ask and clear, every level *)
(* stored on either side has strictly positive size; an update with size 0 *)
(* removes the level at that price and leaves every other level, and the   *)
(* other side, unchanged.                                                  *)
(***************************************************************************)
AllLevelsPositive(b) ==
    /\ \A p \in DOMAIN b.bids : b.bids[p] > 0
    /\ \A p \in DOMAIN b.asks : b.asks[p] > 0

OthersUnchanged(m, m2, price) ==
    /\ (DOMAIN m2) = (DOMAIN m) \ {price}
    /\ \A q \in DOMAIN m2 : m2[q] = m[q]

ZeroUpdateRemoves ==
    /\ (last'.op = "updateBid" /\ last'.size = 0) =>
          /\ OthersUnchanged(book.bids, book'.bids, last'.price)
          /\ book'.asks = book.asks
    /\ (last'.op = "updateAsk" /\ last'.size = 0) =>
          /\ OthersUnchanged(book.asks, book'.asks, last'.price)
          /\ book'.bids = book.bids

QuoteReturned == last.op = "generateQuote" /\ IsQuote(last.quote)

\* C2: whenever generateQuote returns a quote, whatever the book, inventory,
\* average cost, volatility and close time, 0.01 <= bid < ask <= 0.99, the
\* bid is below the best ask, the ask is above the best bid, and both sizes
\* are at least 10.
C2_QuoteInvariants ==
    QuoteReturned =>
        LET q == last.quote
        IN  /\ RLe(R(1, 100), q.bid_price)
            /\ RLt(q.bid_price, q.ask_price)
            /\ RLe(q.ask_price, R(99, 100))
            /\ RLt(q.bid_price, getBestAsk(mm_book))
            /\ RGt(q.ask_price, getBestBid(mm_book))
            /\ RGe(q.bid_size, RInt(10))
            /\ RGe(q.ask_size, RInt(10))

\* a quote returned to a maker that holds inventory and knows its close time
C2_Witness ==
    /\ QuoteReturned
    /\ mm.inventory # RZero
    /\ mm.has_close_time
    /\ mm.volatility # InitialVolatility

\* the floor the claim states: avg_cost * (1 + min_profit)
StatedAskFloor == RMul(mm.avg_cost, RAdd(ROne, MinProfitPct(mm, now)))

HoldsCostedInventory ==
    QuoteReturned /\ RGt(mm.inventory, RZero) /\ RGt(mm.avg_cost, RZero)
        /\ RLt(mm.avg_cost, ROne)

\* C6 as stated: whenever generateQuote returns a quote while inventory > 0
\* and avg_cost > 0, the quoted ask is at least avg_cost * (1 + min_profit),
\* for every avg_cost in (0, 1).
C6_AskAtLeastFloor ==
    HoldsCostedInventory => RGe(last.quote.ask_price, StatedAskFloor)

\* C6 as the code has it: the quoted ask is at least the floor or, when the
\* floor lies above 0.99, equal to 0.99, the price the ask is clipped to.
C6_AskAtLeastClippedFloor ==
    HoldsCostedInventory =>
        IF RGt(StatedAskFloor, R(99, 100))
        THEN last.quote.ask_price = R(99, 100)
        ELSE RGe(last.quote.ask_price, StatedAskFloor)

\* a quote whose ask was raised to the floor, below 0.99
C6_Witness ==
    /\ HoldsCostedInventory
    /\ last.quote.ask_price = StatedAskFloor
    /\ RLt(StatedAskFloor, R(99, 100))
    /\ RGt(StatedAskFloor, mm.avg_cost)

(***************************************************************************)
(* Claims about StrategyEngine::updatePosition.                            *)
(***************************************************************************)
FillCrossedZero ==
    /\ last.op = "updatePosition"
    /\ Sign(last.before) * Sign(pos.quantity) = -1

\* C3: for any sequence of fills (long or short, adding, partially closing,
\* exactly closing or flipping) realized_pnl equals the sum over the closed
\* slices of signed_close * (close_price - avg_cost at the time of the
\* close), and a fill that crosses through zero leaves avg_entry_price equal
\* to that fill's price.
C3_RealizedPnlIsSumOfClosedSlices ==
    /\ pos.realized_pnl = pos_ledger
    /\ FillCrossedZero => pos.avg_entry_price = last.price

\* a short position that realised a loss or a gain and was then flipped long
C3_Witness ==
    /\ FillCrossedZero
    /\ RLt(last.before, RZero)
    /\ pos.realized_pnl # RZero
    /\ pos.num_fills > 1

(***************************************************************************)
(* Claims about StatePersistence::saveState / loadState.                   *)
(***************************************************************************)
LoadedAfterSave == last.op = "loadState" /\ sp_saves > 0

\* everything of a TradingState but last_updated
SameButTime(a, b) == [a EXCEPT !.last_updated = 0] = [b EXCEPT !.last_updated = 0]

\* C7 as stated: for every valid state s, save(s) followed by load() returns
\* a state equal to s (session id, last_updated, totals and every position,
\* negative quantities and the empty map included), and after several saves
\* load() returns exactly the last saved state.
C7_LoadReturnsSavedState ==
    LoadedAfterSave => last.state = sp_current_state

\* C7 as the code has it: load() returns the last saved state with its
\* last_updated cut down to the whole second, and nothing of earlier saves.
C7_LoadReturnsSavedStateToTheSecond ==
    LoadedAfterSave =>
        /\ SameButTime(last.state, sp_current_state)
        /\ last.state.last_updated =
              (sp_current_state.last_updated \div TicksPerSecond) * TicksPerSecond

\* a load after two saves of a state holding a short position and a
\* last_updated that is not on a whole second
C7_Witness ==
    /\ LoadedAfterSave
    /\ sp_saves = 2
    /\ "T2" \in DOMAIN sp_current_state.positions
    /\ "T1" \notin DOMAIN sp_current_state.positions
    /\ sp_current_state.last_updated % TicksPerSecond # 0
    /\ last.state.last_updated # sp_current_state.last_updated

(***************************************************************************)
(* Claims about the paper-fill simulator of OrderManager.                  *)
(***************************************************************************)
\* the crossing predicate: BUY, the book has an ask at or below the order's
\* price; SELL, the book has a bid at or above it
Crosses(order, b) ==
    IF order.side = "BUY"
    THEN \E p \in DOMAIN b.asks : RLe(p, order.price)
    ELSE \E p \in DOMAIN b.bids : RGe(p, order.price)

FillEmittedFor(id, fills) == \E i \in DOMAIN fills : fills[i].order_id = id

\* a step of updateOrderBook in paper mode emits a fill for exactly the
\* orders that were OPEN on the token and crossed by the book
PaperFillsExactlyCrossedOpenOrders ==
    (last'.op = "updateOrderBook" /\ last'.mode = "PAPER") =>
        /\ \A id \in DOMAIN om.orders :
              FillEmittedFor(id, last'.fills) <=>
                  /\ om.orders[id].status = "OPEN"
                  /\ om.orders[id].token_id = last'.token
                  /\ Crosses(om.orders[id], last'.book)
        /\ \A i \in DOMAIN last'.fills : last'.fills[i].order_id \in DOMAIN om.orders

\* C1: in paper mode, given a book for a token, the order manager emits a
\* fill for an order if and only if that order is OPEN on that token and its
\* crossing predicate holds; no fill is emitted for a non-OPEN order, for an
\* order of another token, or when the predicate is false.
C1_PaperFillIffOpenAndCrossed == [][PaperFillsExactlyCrossedOpenOrders]_vars

\* a book update that filled one order and left alone an OPEN order of the
\* same token that the book does not cross
C1_Witness ==
    /\ last.op = "updateOrderBook"
    /\ last.mode = "PAPER"
    /\ Len(last.fills) = 1
    /\ \E id \in DOMAIN om.orders :
          /\ ~FillEmittedFor(id, last.fills)
          /\ om.orders[id].token_id = last.token
          /\ om.orders[id].status = "OPEN"
          /\ ~Crosses(om.orders[id], last.book)

\* a step of updateOrderBook that emits fills emits exactly one event per
\* filled order, carrying the order's id, token, side, price and size, and
\* leaves the order FILLED with filled_size = size
PaperFillIsSingleAndFull ==
    last'.op = "updateOrderBook" =>
        /\ \A i, k \in DOMAIN last'.fills :
              last'.fills[i].order_id = last'.fills[k].order_id => i = k
        /\ \A i \in DOMAIN last'.fills :
              LET e == last'.fills[i]
                  id == e.order_id
              IN  /\ id \in DOMAIN om.orders /\ id \in DOMAIN om'.orders
                  /\ e.type = "ORDER_FILL"
                  /\ e.token_id = om.orders[id].token_id
                  /\ e.side = om.orders[id].side
                  /\ e.fill_price = om.orders[id].price
                  /\ e.filled_size = om.orders[id].size
                  /\ om'.orders[id].filled_size = om.orders[id].size
                  /\ om'.orders[id].status = "FILLED"

FilledSizeWithinSize ==
    \A id \in DOMAIN om.orders :
        /\ RLe(RZero, om.orders[id].filled_size)
        /\ RLe(om.orders[id].filled_size, om.orders[id].size)

\* C9: a paper fill of an order is a single full fill: it sets filled_size to
\* the order's size and the status to FILLED, and enqueues exactly one
\* OrderFill event carrying the order's id, token, side, price and size; so
\* 0 <= filled_size <= size holds for every order at all times.
C9_PaperFillIsSingleFullFill ==
    [](FilledSizeWithinSize) /\ [][PaperFillIsSingleAndFull]_vars

\* two orders filled by one book update, and a later update of the same
\* book that fills nothing more
C9_Witness ==
    /\ last.op = "updateOrderBook"
    /\ last.fills = <<>>
    /\ Cardinality({id \in DOMAIN om.orders :
                       /\ om.orders[id].status = "FILLED"
                       /\ om.orders[id].token_id = last.token
                       /\ Crosses(om.orders[id], last.book)}) = 2

(***************************************************************************)
(* Claims about the strategy engine.                                       *)
(***************************************************************************)
\* a loop iteration that handled a market-data event has just ended
BookEventStep ==
    /\ eng.thread = "pop"
    /\ eng'.thread = "top"
    /\ QueueFront(eng.event_queue).type \in {"BOOK_SNAPSHOT", "PRICE_LEVEL_UPDATE"}

\* one side of a book once the event's levels are applied to the side old:
\* a level of the event replaces the old one and a zero size removes it
PricesOf(levels) == {levels[i][1] : i \in DOMAIN levels}
LastSize(levels, p) ==
    levels[CHOOSE i \in DOMAIN levels :
              /\ levels[i][1] = p
              /\ \A j \in DOMAIN levels : levels[j][1] = p => j <= i][2]

SideAfterLevels(old, levels) ==
    [p \in {x \in DOMAIN old \cup PricesOf(levels) :
               x \in PricesOf(levels) => LastSize(levels, x) # 0} |->
        IF p \in PricesOf(levels) THEN LastSize(levels, p) ELSE old[p]]

BookUpdatedBy(ev) ==
    LET old == IF ev.token_id \in DOMAIN eng.order_books /\ ev.type # "BOOK_SNAPSHOT"
               THEN eng.order_books[ev.token_id] ELSE EmptyBook
        new == eng'.order_books[ev.token_id]
    IN  /\ ev.token_id \in DOMAIN eng'.order_books
        /\ new.bids = SideAfterLevels(old.bids, ev.bids)
        /\ new.asks = SideAfterLevels(old.asks, ev.asks)

NoQuotingFor(token_id) ==
    /\ \A i \in DOMAIN last'.calls :
          last'.calls[i].token_id = token_id => last'.calls[i].call = "calculateQuotes"
    /\ token_id \notin DOMAIN eng'.active_quotes
    /\ getOpenOrders(eng'.order_manager, token_id) = {}

OrdersOnlyForMakers ==
    \A id \in DOMAIN eng'.order_manager.orders :
        eng'.order_manager.orders[id].token_id \in DOMAIN eng'.market_makers

\* C10: no order is ever held for a token that has no market maker, whether
\* the token is unregistered or registered with registerMarketMetadata only;
\* a book snapshot or price update for such a token updates its book, and the
\* iteration makes no generateQuote, cancelAllOrders or placeOrder call for
\* it and leaves it without active quote and without orders.
C10_NoQuotingWithoutMaker ==
    [][ /\ OrdersOnlyForMakers
        /\ (BookEventStep
              /\ QueueFront(eng.event_queue).token_id \notin DOMAIN eng.market_makers)
           => /\ BookUpdatedBy(QueueFront(eng.event_queue))
              /\ NoQuotingFor(QueueFront(eng.event_queue).token_id)
      ]_vars

\* a snapshot with a valid BBO was handled for T2, registered for observation
\* only, and calculateQuotes was entered for it, while orders rest for T1
C10_Witness ==
    /\ last.op = "run"
    /\ last.type = "BOOK_SNAPSHOT"
    /\ last.token_id = "T2"
    /\ "T2" \in DOMAIN eng.market_metadata
    /\ "T2" \notin DOMAIN eng.market_makers
    /\ hasValidBBO(eng.order_books["T2"])
    /\ \E i \in DOMAIN last.calls :
          last.calls[i].token_id = "T2" /\ last.calls[i].call = "calculateQuotes"
    /\ getOpenOrders(eng.order_manager, "T1") # {}

\* the active quotes of a sweep whose age had reached their ttl_seconds
DueAt(s) ==
    {k \in DOMAIN s.active :
        s.at - s.active[k].quote_created_at >= s.active[k].ttl_seconds}

Occurrences(seq, k) == Cardinality({i \in DOMAIN seq : seq[i] = k})

SweepsOfLastIteration ==
    IF last.op = "run" THEN {last.sweeps[i] : i \in DOMAIN last.sweeps} ELSE {}

\* C5 as stated: every sweep requotes each active quote whose age has reached
\* its ttl_seconds exactly once and requotes nothing else, and no sweep
\* requotes for an expiry that an earlier sweep has already requoted.
C5_EveryExpiredQuoteRequotedOnceOnly ==
    \A s \in SweepsOfLastIteration :
        /\ \A k \in Tokens :
              Occurrences(s.requoted, k) = IF k \in DueAt(s) THEN 1 ELSE 0
        /\ s.again = {}

\* C5, amended: a sweep calls calculateQuotes with TTL_EXPIRED exactly once
\* for each active quote whose age has reached its ttl_seconds and whose book
\* has a valid BBO, and for no other token.  When that requote yields a quote
\* the active quote is refreshed with created_at = now, and no later sweep
\* requotes for the same expiry; when it yields none the active quote is left
\* as it was, still expired.
C5_ExpiredQuotableQuoteRequotedOnce ==
    \A s \in SweepsOfLastIteration :
        /\ \A k \in Tokens :
              Occurrences(s.requoted, k) =
                  IF k \in DueAt(s) /\ k \in s.valid THEN 1 ELSE 0
        /\ s.quoted \subseteq DueAt(s) \cap s.valid
        /\ \A k \in DueAt(s) \cap s.valid :
              IF k \in s.quoted
              THEN s.after[k].quote_created_at = s.at
              ELSE s.after[k] = s.active[k]
        /\ \A k \in DueAt(s) \ s.valid : s.after[k] = s.active[k]
        /\ s.again_after_quote = {}

\* a sweep found T1's active quote expired, requoted it once with
\* TTL_EXPIRED, and the requote refreshed the active quote
C5_Witness ==
    \E s \in SweepsOfLastIteration :
        /\ "T1" \in DueAt(s)
        /\ s.requoted = <<"T1">>
        /\ "T1" \in s.quoted
        /\ s.after["T1"].quote_created_at = s.at
        /\ eng.active_quotes["T1"].quote_created_at = now


(***************************************************************************)
(* C11: no thread other than the strategy thread touches the order-book    *)
(* map, the market makers or the order manager's order map while the       *)
(* strategy thread mutates them, unless both hold the same mutex; and      *)
(* every getter the status thread is inside of holds a mutex or reads an   *)
(* atomic.                                                                 *)
(***************************************************************************)
OwnedMembers == {"order_books", "market_makers", "orders"}

\* Both threads are inside accesses to one member, one of them mutating it,
\* with no common mutex and not both on an atomic.
RaceOn(object) ==
    /\ strategy_thread.inside /\ status_thread.inside
    /\ object \in StrategyAccess.objects \cap StatusAccess.objects
    /\ "write" \in {StrategyAccess.mode, StatusAccess.mode}
    /\ ~(StrategyAccess.atomic /\ StatusAccess.atomic)

StatusSeesProtected ==
    status_thread.inside => StatusAccess.lock # "none" \/ StatusAccess.atomic

C11_OwnedMembersNeverShared ==
    /\ \A object \in OwnedMembers : ~RaceOn(object)
    /\ StatusSeesProtected

\* The mutexes do what they are there for: positions_ and active_quotes_
\* are never touched by both threads at once.
LockedMembersExclusive ==
    \A object \in {"positions", "active_quotes", "total_fills"} : ~RaceOn(object)

\* The status thread is inside getAverageSpread or getUnrealizedPnL while the
\* strategy thread rewrites a book, or inside a count of orders_ while the
\* strategy thread places or erases an order.
C11_RaceReached ==
    /\ RaceOn("order_books") \/ RaceOn("orders")
    /\ StrategyAccess.mode = "write"
    /\ StatusGetters[status_thread.pc] \in
          {"getAverageSpread", "getUnrealizedPnL", "getActiveOrderCount", "getBidCount",
           "getAskCount", "getActiveMarketCount"}

(***************************************************************************)
(* C12: whenever stop() has returned after a start(), the strategy thread  *)
(* has left its loop and has been joined.                                  *)
(***************************************************************************)
C12_StopReturnsWithThreadJoined ==
    eng.stop = "returned" => eng.thread = "joined"

\* stop() has returned while run() is still inside its loop, never joined.
C12_ReturnedInsideLoop ==
    /\ eng.stop = "returned"
    /\ eng.thread \in {"top", "pop"}

(***************************************************************************)
(* C13: for every token the stored adverse-selection spread multiplier is  *)
(* within [1.0, 3.0] in every reachable state.                             *)
(***************************************************************************)
C13_StoredMultiplierInRange ==
    \A token_id \in DOMAIN as_manager.spread_multipliers :
        /\ RGe(as_manager.spread_multipliers[token_id], MIN_MULTIPLIER)
        /\ RLe(as_manager.spread_multipliers[token_id], MAX_MULTIPLIER)

\* The first assessment of a token was toxic: 0.0 * 1.2 + 0.1 is stored.
C13_FirstToxicStoresTenth ==
    /\ last.op = "updateMetrics"
    /\ last.token_id \in DOMAIN as_manager.spread_multipliers
    /\ as_manager.spread_multipliers[last.token_id] = R(1, 10)

\* The stored multiplier never exceeds MAX_MULTIPLIER.
StoredMultiplierAtMostMax ==
    \A token_id \in DOMAIN as_manager.spread_multipliers :
        RLe(as_manager.spread_multipliers[token_id], MAX_MULTIPLIER)

(***************************************************************************)
(* C14: a fill updates the market maker's inventory by the same rules for  *)
(* long and short inventory: a same-sign fill sets avg_cost to the         *)
(* size-weighted average; an opposite-sign fill at least as large as the   *)
(* inventory realizes inventory * (price - avg_cost) and opens the rest at *)
(* the fill price; an opposite-sign partial close realizes PnL on the      *)
(* closed size and keeps avg_cost; zero net inventory clears avg_cost.     *)
(***************************************************************************)
SignedFill(side, size) == IF side = "BUY" THEN size ELSE RNeg(size)

SameSign(inventory, side) ==
    \/ inventory = RZero
    \/ RGt(inventory, RZero) /\ side = "BUY"
    \/ RLt(inventory, RZero) /\ side = "SELL"

\* m2 is what the stated rules make of m after the fill
FollowsRules(m, side, size, price, m2) ==
    LET inv2 == RAdd(m.inventory, SignedFill(side, size))
        closed == IF RGt(m.inventory, RZero) THEN RMin(size, m.inventory)
                  ELSE RNeg(RMin(size, RAbs(m.inventory)))
    IN  /\ m2.inventory = inv2
        /\ IF SameSign(m.inventory, side)
           THEN /\ m2.realized_pnl = m.realized_pnl
                /\ m2.avg_cost =
                      RDiv(RAdd(RMul(RAbs(m.inventory), m.avg_cost), RMul(size, price)),
                           RAbs(inv2))
           ELSE /\ m2.realized_pnl =
                      RAdd(m.realized_pnl, RMul(closed, RSub(price, m.avg_cost)))
                /\ m2.avg_cost =
                      IF inv2 = RZero THEN RZero
                      ELSE IF RGe(size, RAbs(m.inventory)) THEN price
                      ELSE m.avg_cost

FillFollowsRules(shorts) ==
    \A side \in Sides, size \in MMFillSizes, price \in MMFillPrices :
        /\ mm_fills' = mm_fills + 1
        /\ mm' = updateInventory(mm, side, size, price)
        /\ shorts \/ RGe(mm.inventory, RZero)
        => FollowsRules(mm, side, size, price, mm')

C14_InventoryRulesLongAndShort == [][FillFollowsRules(TRUE)]_vars

\* The rules do hold for every fill that finds the inventory long or flat.
InventoryRulesFromLongOrFlat == [][FillFollowsRules(FALSE)]_vars

\* A short has been bought back to flat: nothing was realized and avg_cost
\* still holds the short's entry price.
C14_ShortCoveredUnrealized ==
    /\ mm_fills = 2
    /\ mm.inventory = RZero
    /\ mm.avg_cost # RZero
    /\ mm.realized_pnl = RZero

(***************************************************************************)
(* C15: the engine never produces a quote, and so never places orders,     *)
(* from a book that is crossed, locked or tighter than one cent: every     *)
(* book it quotes on has best_bid <= best_ask and best_ask - best_bid >=   *)
(* 0.01.                                                                   *)
(***************************************************************************)
QuotableBook(b) ==
    /\ hasValidBBO(b)
    /\ RLe(getBestBid(b), getBestAsk(b))
    /\ RGe(RSub(getBestAsk(b), getBestBid(b)), R(1, 100))

\* the calls of the last loop iteration that produced a quote or placed an order
QuotingCalls ==
    IF last.op # "run" THEN {}
    ELSE {last.calls[i] : i \in {j \in DOMAIN last.calls :
              \/ last.calls[j].call = "generateQuote" /\ last.calls[j].result = "quote"
              \/ last.calls[j].call = "placeOrder"}}

C15_QuotesOnlyOnWideUncrossedBooks ==
    \A x \in QuotingCalls :
        /\ x.token_id \in DOMAIN eng.order_books
        /\ QuotableBook(eng.order_books[x.token_id])

\* generateQuote was called on a two-sided book that is crossed or tighter
\* than a cent and returned no quote, and the iteration placed no order;
\* an earlier iteration had quoted the same token on a wide book.
C15_Witness ==
    /\ last.op = "run"
    /\ \E i \in DOMAIN last.calls :
          /\ last.calls[i].call = "generateQuote"
          /\ last.calls[i].result = "none"
          /\ hasValidBBO(eng.order_books[last.calls[i].token_id])
          /\ ~QuotableBook(eng.order_books[last.calls[i].token_id])
          /\ getOpenOrders(eng.order_manager, last.calls[i].token_id) # {}
    /\ QuotingCalls = {}

\* the same on a locked book: best bid equal to best ask
C15_LockedBookReached ==
    /\ C15_Witness
    /\ \E k \in DOMAIN eng.order_books :
          /\ hasValidBBO(eng.order_books[k])
          /\ getBestBid(eng.order_books[k]) = getBestAsk(eng.order_books[k])

(***************************************************************************)
(* C16: the market phase is a function of the time remaining to the event  *)
(* end, and the recommended TTL a function of the phase: 90, 45, 20 and 3  *)
(* seconds, and 90 seconds for a quote made without metadata.              *)
(***************************************************************************)
PhaseTTL(phase) ==
    CASE phase = "PRE_MATCH_EARLY" -> 90
      [] phase = "PRE_MATCH_LATE" -> 45
      [] phase = "PRE_MATCH_CRITICAL" -> 20
      [] phase = "IN_PLAY" -> 3

\* the seconds that remained to the end when the object was asked
Remaining == phase_seen.md.event_end_time - phase_seen.at

TTLFollowsPhase ==
    /\ phase_seen.ttl = PhaseTTL(phase_seen.phase)
    /\ phase_seen.quote_ttl = phase_seen.ttl
    /\ phase_seen.quote_ttl_without = 90

CancelOrderStep == last'.op = "cancelOrder"

C17_CancelUnknownIsNoOp ==
    [][CancelOrderStep =>
         IF last'.order_id \notin DOMAIN om.orders
         THEN /\ last'.result = FALSE
              /\ om' = om
         ELSE /\ last'.result = TRUE
              /\ om.trading_mode = "PAPER" =>
                    /\ last'.order_id \notin DOMAIN om'.orders
                    /\ om'.orders = MapErase(om.orders, last'.order_id)
      ]_vars

\* an id that is not resident was cancelled while another order rests, and
\* the call returned false
C17_Witness ==
    /\ last.op = "cancelOrder"
    /\ last.result = FALSE
    /\ last.order_id \notin DOMAIN om.orders
    /\ om.orders # <<>>
    /\ om.trading_mode = "PAPER"

(***************************************************************************)
(* C18: cancelAllOrders(token) removes every resident order of that token  *)
(* and leaves the orders of every other token unchanged: afterwards        *)
(* getOpenOrders(token) is empty and getOpenOrders of any other token      *)
(* returns what it returned before.                                        *)
(***************************************************************************)
CancelAllStep == last'.op = "cancelAllOrders"

OtherTokensKept ==
    \A other \in Tokens \ {last'.token} :
        getOpenOrders(om', other) = getOpenOrders(om, other)

WellTyped(obj, key, kinds) == key \in DOMAIN obj => obj[key].t \in kinds

WellFormedPosition(pj) ==
    /\ pj.t = "object"
    /\ \A key \in {"quantity", "avg_cost", "realized_pnl"} :
          WellTyped(pj.v, key, {"int", "float"})

WellFormed(file) ==
    /\ file.json.t = "object"
    /\ WellTyped(file.json.v, "last_session_id", {"string"})
    /\ \A key \in {"total_trades", "total_volume", "total_realized_pnl", "last_updated"} :
          WellTyped(file.json.v, key, {"int", "float"})
    /\ "positions" \in DOMAIN file.json.v =>
          \/ file.json.v.positions.t = "null"
          \/ /\ file.json.v.positions.t = "object"
             /\ \A k \in DOMAIN file.json.v.positions.v :
                   WellFormedPosition(file.json.v.positions.v[k])

Malformed(file) == file.exists /\ ~WellFormed(file)

C19_LoadFreshWhenAbsentOrMalformed ==
    (last.op = "loadState" /\ (~sp_file.exists \/ Malformed(sp_file)))
        => last.state = NewTradingState

\* a file whose scalars and first position are good and whose second
\* position is ill-typed was loaded: the totals and the first position came
\* back
C19_PartialStateReturned ==
    /\ last.op = "loadState"
    /\ Malformed(sp_file)
    /\ last.state.total_trades = 50
    /\ DOMAIN last.state.positions = {"T1"}

\* An absent file, text that is not JSON, JSON that is no object and an
\* ill-typed first field do give the fresh state.
LoadFreshWhenNothingWasRead ==
    (last.op = "loadState"
       /\ \/ ~sp_file.exists
          \/ sp_file.json.t # "object"
          \/ ~WellTyped(sp_file.json.v, "last_session_id", {"string"}))
        => last.state = NewTradingState

(***************************************************************************)
(* C20: on transport loss the transport reconnects with linear backoff     *)
(* (the k-th consecutive attempt waits k * backoff) for at most            *)
(* max_attempts consecutive failed attempts; once max_attempts attempts    *)
(* have failed it enqueues one Shutdown event and makes no further         *)
(* attempt; the attempt counter returns to zero only after a connection    *)
(* has been re-established.                                                *)
(***************************************************************************)
LinearBackoff ==
    \A k \in DOMAIN ws.slept : ws.slept[k] = k * ws.reconnect_backoff

\* every attempt that waited its backoff went on to call connect()
EveryAttemptConnects == ws.connect_calls = Len(ws.slept)

ShutdownAfterMaxAttempts ==
    /\ Len(ws.slept) <= ws.max_reconnect_attempts
    /\ Len(ws.pushed) <= 1
    /\ ws.pushed # <<>> =>
          /\ ws.pushed = <<"SHUTDOWN">>
          /\ Len(ws.slept) = ws.max_reconnect_attempts
          /\ ~ws.reading

CounterZeroOnlyWhenReconnected ==
    (ws.slept # <<>> /\ ws.reconnect_attempt = 0) => ws.connect_calls > 0

C20_ReconnectsWithLinearBackoff ==
    /\ LinearBackoff
    /\ EveryAttemptConnects
    /\ ShutdownAfterMaxAttempts
    /\ CounterZeroOnlyWhenReconnected

\* The backoff, the bound on the attempts and the single Shutdown are as
\* stated; what fails is that no attempt reaches connect().
BackoffAndShutdownAsStated ==
    /\ LinearBackoff
    /\ ShutdownAfterMaxAttempts
    /\ CounterZeroOnlyWhenReconnected
    /\ ws.connect_calls = 0

\* a connection was lost while the client was running and the server could
\* be reached again: every attempt slept its backoff and failed in the
\* clean-up, none called connect(), and Shutdown was pushed
C20_GaveUpWithoutConnecting ==
    /\ last.op = "handleDisconnection"
    /\ last.running_before
    /\ ws.max_reconnect_attempts = MaxReconnectAttempts
    /\ Len(ws.slept) = ws.max_reconnect_attempts
    /\ ws.connect_calls = 0
    /\ ws.pushed = <<"SHUTDOWN">>

(***************************************************************************)
(* C21: a malformed feed message is logged and only that message is        *)
(* dropped: every well-formed message delivered before or after it, the    *)
(* other elements of the same JSON array included, still produces its      *)
(* events, in order.                                                       *)
(***************************************************************************)
WellFormedMessage(msg) ==
    CASE msg.event_type = "book" -> msg.defect = "none"
      [] msg.event_type = "price_change" ->
             \A i \in DOMAIN msg.price_changes : msg.price_changes[i].defect = "none"
      [] OTHER -> TRUE

EventsOfMessage(msg) ==
    CASE msg.event_type = "book" ->
             <<[type |-> "BOOK_SNAPSHOT", token_id |-> msg.asset_id, side |-> "BOTH"]>>
      [] msg.event_type = "price_change" ->
             [i \in DOMAIN msg.price_changes |->
                 [type |-> "PRICE_LEVEL_UPDATE", token_id |-> msg.price_changes[i].asset_id,
                  side |-> msg.price_changes[i].side]]
      [] OTHER -> <<>>

RECURSIVE EventsOfWellFormed(_, _)
EventsOfWellFormed(items, i) ==
    IF i > Len(items) THEN <<>>
    ELSE (IF WellFormedMessage(items[i]) THEN EventsOfMessage(items[i]) ELSE <<>>)
         \o EventsOfWellFormed(items, i + 1)

FrameMalformed(frame) ==
    \/ frame.text = "invalid"
    \/ \E i \in DOMAIN frame.items : ~WellFormedMessage(frame.items[i])

C21_OnlyMalformedMessageDropped ==
    last.op = "handleMessage" =>
        /\ feed.alive
        /\ feed.pushed = last.before.pushed \o EventsOfWellFormed(last.frame.items, 1)
        /\ feed.errors = last.before.errors + (IF FrameMalformed(last.frame) THEN 1 ELSE 0)

\* What does hold: a frame without a defect produces all its events, and a
\* frame that fails, unless it takes the process down, is logged and costs
\* nothing that earlier frames pushed.
FramesAreIsolated ==
    last.op = "handleMessage" =>
        /\ ~FrameMalformed(last.frame) =>
              /\ feed.alive
              /\ feed.pushed = last.before.pushed \o EventsOfWellFormed(last.frame.items, 1)
              /\ feed.errors = last.before.errors
        /\ (FrameMalformed(last.frame) /\ feed.alive) =>
              /\ feed.errors = last.before.errors + 1
              /\ SubSeq(feed.pushed, 1, Len(last.before.pushed)) = last.before.pushed

\* an array whose first element has an ill-typed member and whose second is
\* a well-formed book message pushed nothing at all
C21_ArrayTailDropped ==
    /\ last.op = "handleMessage"
    /\ last.frame = ArrayFrame(<<BookMessage("T1", "type"), BookMessage("T1", "none")>>)
    /\ feed.alive
    /\ feed.pushed = last.before.pushed

(***************************************************************************)
(* C22: in every engine instance, the first calculate_quotes for a token   *)
(* whose persisted position is non-zero sets that token's market-maker     *)
(* inventory, average cost and realized PnL from the persisted position    *)
(* before any quote is generated, and this restore happens exactly once    *)
(* per token per engine instance.                                          *)
(***************************************************************************)
PersistedNonZero(token_id) ==
    /\ token_id \in DOMAIN rs.positions
    /\ rs.positions[token_id].quantity # RZero

MakerHoldsPosition(maker, held) ==
    /\ maker.inventory = held.quantity
    /\ maker.avg_cost = held.avg_entry_price
    /\ maker.realized_pnl = held.realized_pnl

C22_FirstQuoteRestoresOncePerEngine ==
    /\ \A k \in Tokens : rs.restores[k] <= 1
    /\ last.op = "calculateQuotes" =>
          /\ (last.first /\ PersistedNonZero(last.token_id)) =>
                MakerHoldsPosition(last.quoting, rs.positions[last.token_id])
          /\ PersistedNonZero(last.token_id) => rs.restores[last.token_id] = 1

\* What does hold: no maker is restored twice, and in the first engine of
\* the process a position larger than 0.001 is restored before the first
\* quote.
FirstEngineRestoresOnce ==
    /\ \A k \in Tokens : rs.restores[k] <= 1
    /\ (last.op = "calculateQuotes" /\ rs.engines = 1
          /\ last.token_id \in DOMAIN rs.positions
          /\ RGt(RAbs(rs.positions[last.token_id].quantity), RestoreThreshold)) =>
             /\ MakerHoldsPosition(last.quoting, rs.positions[last.token_id])
             /\ rs.restores[last.token_id] = 1

\* the second engine of the process quotes T1 for the first time over a
\* saved position of 500 with a maker that still holds nothing
C22_SecondEngineNotRestored ==
    /\ last.op = "calculateQuotes"
    /\ last.first
    /\ last.token_id = "T1"
    /\ rs.engines = 2
    /\ "T1" \in DOMAIN rs.positions
    /\ rs.positions["T1"].quantity = RInt(500)
    /\ last.quoting.inventory = RZero
    /\ rs.restores["T1"] = 0

(***************************************************************************)
(* C23: after a BookSnapshot event for a token has been handled, the       *)
(* engine's book for that token contains exactly the payload's levels with *)
(* non-zero size and no level that was present only before the snapshot,   *)
(* whatever the book held earlier; handling the same snapshot twice gives  *)
(* the same book as handling it once.                                      *)
(***************************************************************************)
SnapshotStep ==
    /\ BookEventStep
    /\ QueueFront(eng.event_queue).type = "BOOK_SNAPSHOT"

\* a side of a book as the set of its (price, size) levels
LevelsOfSide(side) == {Level(p, side[p]) : p \in DOMAIN side}
NonZeroLevels(levels) == {levels[i] : i \in {j \in DOMAIN levels : levels[j][2] # 0}}

SnapshotIdempotent(ev) ==
    BookAfterEvent(eng', ev) = eng'.order_books[ev.token_id]

C23_SnapshotReplacesBook ==
    [][ SnapshotStep =>
          LET ev == QueueFront(eng.event_queue)
              new == eng'.order_books[ev.token_id]
          IN  /\ LevelsOfSide(new.bids) = NonZeroLevels(ev.bids)
              /\ LevelsOfSide(new.asks) = NonZeroLevels(ev.asks)
              /\ SnapshotIdempotent(ev)
      ]_vars

\* As C23, with a price that the payload names more than once on a side
\* decided by its last entry: the level is there with that entry's size, or
\* absent when that size is zero.
C23_SnapshotReplacesBookLastEntryWins ==
    [][ SnapshotStep =>
          LET ev == QueueFront(eng.event_queue)
              new == eng'.order_books[ev.token_id]
          IN  /\ new.bids = SideAfterLevels(<<>>, ev.bids)
              /\ new.asks = SideAfterLevels(<<>>, ev.asks)
              /\ SnapshotIdempotent(ev)
      ]_vars

\* a snapshot for T1 was handled over a book that held an ask level the
\* snapshot does not name, and the level is gone
C23_Witness ==
    /\ last.op = "run"
    /\ last.type = "BOOK_SNAPSHOT"
    /\ last.token_id = "T1"
    /\ last.unnamed
    /\ DOMAIN eng.order_books["T1"].bids = {R(48, 100)}
    /\ DOMAIN eng.order_books["T1"].asks = {R(54, 100)}

\* a snapshot that names the bid 0.48 twice, the second time with size 0,
\* left the book without that bid
C23_RepeatedPriceReached ==
    /\ last.op = "run"
    /\ last.type = "BOOK_SNAPSHOT"
    /\ last.token_id = "T2"
    /\ "T2" \in DOMAIN eng.order_books
    /\ eng.order_books["T2"].bids = <<>>
    /\ DOMAIN eng.order_books["T2"].asks = {R(55, 100)}

(***************************************************************************)
(* C24: every bid and ask price of a returned quote is a whole number of   *)
(* cents (a multiple of 0.01) within [0.01, 0.99], for every inventory and *)
(* average cost, including quotes whose ask was raised by the              *)
(* inventory-risk floor.                                                   *)
(***************************************************************************)
WholeCents(price) == RIsInt(RMul(price, RInt(100)))
InQuoteRange(price) == RLe(MinQuotePrice, price) /\ RLe(price, MaxQuotePrice)

C24_QuotePricesWholeCentsInRange ==
    QuoteReturned =>
        /\ WholeCents(last.quote.bid_price) /\ InQuoteRange(last.quote.bid_price)
        /\ WholeCents(last.quote.ask_price) /\ InQuoteRange(last.quote.ask_price)

\* What does hold: both prices lie in [0.01, 0.99], the bid is a whole number
\* of cents, and so is the ask unless the floor raised it.
QuotePricesInRangeBidWholeCents ==
    QuoteReturned =>
        /\ WholeCents(last.quote.bid_price) /\ InQuoteRange(last.quote.bid_price)
        /\ InQuoteRange(last.quote.ask_price)
        /\ ~WholeCents(last.quote.ask_price) =>
              /\ RGt(mm.inventory, RZero) /\ RGt(mm.avg_cost, RZero)
              /\ last.quote.ask_price = StatedAskFloor

\* a quote whose ask the floor raised to a price that is not a whole number
\* of cents
C24_FlooredAskOffCent ==
    /\ QuoteReturned
    /\ RGt(mm.inventory, RZero)
    /\ last.quote.ask_price = StatedAskFloor
    /\ ~WholeCents(last.quote.ask_price)

(***************************************************************************)
(* C25: on a fixed book, quotes shift downward with positive inventory:    *)
(* leaving the ask floor aside, the bid and the ask produced with          *)
(* inventory q > 0 are each no higher than the bid and the ask produced    *)
(* with zero inventory, and neither rises as q grows.                      *)
(***************************************************************************)
\* the maker with another inventory and no cost recorded, so that the floor
\* stays out of its quote
HoldingUnfloored(maker, inventory) ==
    [maker EXCEPT !.inventory = inventory, !.avg_cost = RZero]

\* the inventories a maker of the model can be compared with
LowerInventories == {RZero, RInt(100), RInt(200), RInt(900)}

\* generateQuote returned a quote to a long maker and the floor did not
\* raise its ask
LongQuoteUnfloored ==
    /\ QuoteReturned
    /\ RGt(mm.inventory, RZero)
    /\ last.quote = QuoteFor(HoldingUnfloored(mm, mm.inventory), mm_book, now)

C25_QuotesShiftDownWithInventory ==
    LongQuoteUnfloored =>
        \A lower \in {x \in LowerInventories : RLt(x, mm.inventory)} :
            \A flat \in {QuoteFor(HoldingUnfloored(mm, lower), mm_book, now)} :
                IsQuote(flat) =>
                    /\ RLe(last.quote.bid_price, flat.bid_price)
                    /\ RLe(last.quote.ask_price, flat.ask_price)

\* What does hold: the bid never rises with the inventory.
BidShiftsDownWithInventory ==
    LongQuoteUnfloored =>
        \A lower \in {x \in LowerInventories : RLt(x, mm.inventory)} :
            \A flat \in {QuoteFor(HoldingUnfloored(mm, lower), mm_book, now)} :
                IsQuote(flat) => RLe(last.quote.bid_price, flat.bid_price)

\* a long maker was quoted an ask above the ask the same maker would get on
\* the same book with no inventory, the floor playing no part
C25_AskRisesWithInventory ==
    /\ LongQuoteUnfloored
    /\ \E flat \in {QuoteFor(HoldingUnfloored(mm, RZero), mm_book, now)} :
          /\ IsQuote(flat)
          /\ RGt(last.quote.ask_price, flat.ask_price)

(***************************************************************************)
(* C26: in paper mode the crossing check runs against the last known book  *)
(* after every book event: if handling a PriceLevelUpdate leaves the       *)
(* engine's book with best_bid >= the price of an OPEN sell order of that  *)
(* token, or best_ask <= the price of an OPEN buy order, a fill for that   *)
(* order is emitted while that event is handled, exactly as it would be    *)
(* for a BookSnapshot producing the same book.                             *)
(***************************************************************************)
BookEventOfType(type) ==
    /\ BookEventStep
    /\ QueueFront(eng.event_queue).type = type

\* the orders OPEN before the step that the book after it crosses
CrossedByNewBook ==
    LET token_id == QueueFront(eng.event_queue).token_id
        orders == eng.order_manager.orders
    IN  {id \in DOMAIN orders :
            /\ orders[id].token_id = token_id
            /\ orders[id].status = "OPEN"
            /\ Crosses(orders[id], eng'.order_books[token_id])}

FillPushedFor(id) ==
    \E i \in DOMAIN eng'.event_queue :
        /\ eng'.event_queue[i].type = "ORDER_FILL"
        /\ eng'.event_queue[i].order_id = id

C26_CrossingCheckOnEveryBookEvent ==
    [][ (BookEventOfType("PRICE_LEVEL_UPDATE") \/ BookEventOfType("BOOK_SNAPSHOT"))
           => \A id \in CrossedByNewBook : FillPushedFor(id) ]_vars

\* What does hold: the check runs when a snapshot is handled.
CrossingCheckOnSnapshot ==
    [][ BookEventOfType("BOOK_SNAPSHOT")
           => \A id \in CrossedByNewBook : FillPushedFor(id) ]_vars

\* a price update for T1 was handled, the book it left crosses an order of
\* T1, and the order is still OPEN with nothing filled
C26_CrossedOrderLeftOpen ==
    /\ last.op = "run"
    /\ last.type = "PRICE_LEVEL_UPDATE"
    /\ last.token_id = "T1"
    /\ \E id \in DOMAIN eng.order_manager.orders :
          LET order == eng.order_manager.orders[id]
          IN  /\ order.token_id = "T1"
              /\ order.status = "OPEN"
              /\ order.filled_size = RZero
              /\ Crosses(order, eng.order_books["T1"])
              /\ \A i \in DOMAIN eng.event_queue :
                    eng.event_queue[i].type = "ORDER_FILL" =>
                        eng.event_queue[i].order_id # id

(***************************************************************************)
(* C27: after calculate_quotes has obtained a quote for a token, the order *)
(* manager holds for that token exactly one OPEN buy order at the quoted   *)
(* bid (+-0.001) and one OPEN sell order at the quoted ask (+-0.001):      *)
(* either the already resting matching pair, left untouched, or a freshly  *)
(* placed pair after cancel_all of the token's orders.                     *)
(***************************************************************************)
\* the tokens the last loop iteration obtained a quote for
QuotedTokens == {x.token_id : x \in {y \in QuotingCalls : y.call = "generateQuote"}}

OpenOrdersOf(token_id, side) ==
    {o \in getOpenOrders(eng.order_manager, token_id) :
        o.status = "OPEN" /\ o.side = side}

OneOpenOrderAt(token_id, side, price) ==
    /\ Cardinality(OpenOrdersOf(token_id, side)) = 1
    /\ \A o \in OpenOrdersOf(token_id, side) :
          RLt(RAbs(RSub(o.price, price)), MatchTolerance)

C27_QuotedPairIsOpen ==
    \A k \in QuotedTokens :
        /\ k \in DOMAIN eng.active_quotes
        /\ OneOpenOrderAt(k, "BUY", eng.active_quotes[k].bid_price)
        /\ OneOpenOrderAt(k, "SELL", eng.active_quotes[k].ask_price)

\* What does hold: a pair placed by the iteration is OPEN at the quoted
\* prices, and no token ever has more than one OPEN order a side.
PlacedPairIsOpen ==
    /\ \A k \in DOMAIN eng.market_makers, side \in {"BUY", "SELL"} :
          Cardinality(OpenOrdersOf(k, side)) <= 1
    /\ \A k \in QuotedTokens :
          (\E x \in QuotingCalls : x.call = "placeOrder" /\ x.token_id = k) =>
             /\ OneOpenOrderAt(k, "BUY", eng.active_quotes[k].bid_price)
             /\ OneOpenOrderAt(k, "SELL", eng.active_quotes[k].ask_price)

\* a quote was obtained for T1 and nothing was placed because a FILLED buy
\* order still resident at the quoted bid counted as the matching bid: no
\* buy order of T1 is OPEN
C27_FilledOrderCountedAsMatch ==
    /\ "T1" \in QuotedTokens
    /\ \A x \in QuotingCalls : x.call # "placeOrder"
    /\ OpenOrdersOf("T1", "BUY") = {}
    /\ \E o \in getOpenOrders(eng.order_manager, "T1") :
          /\ o.side = "BUY"
          /\ o.status = "FILLED"
          /\ RLt(RAbs(RSub(o.price, eng.active_quotes["T1"].bid_price)), MatchTolerance)

(***************************************************************************)
(* C28: when an active quote's TTL expires in paper mode and the maker     *)
(* still produces a quote, the resting orders are cancelled with reason    *)
(* TTL_EXPIRED and a new pair is placed, also when the new quote has the   *)
(* same prices as the resting orders.                                      *)
(***************************************************************************)
CallsOfLastIteration == IF last.op = "run" THEN last.calls ELSE <<>>

\* the positions in the calls of the last iteration at which a requote for
\* an expired quote obtained a quote from the maker
ExpiryQuotes ==
    {i \in DOMAIN CallsOfLastIteration :
        /\ CallsOfLastIteration[i].call = "generateQuote"
        /\ CallsOfLastIteration[i].reason = "TTL_EXPIRED"
        /\ CallsOfLastIteration[i].result = "quote"}

\* the three calls after position i are cancelAllOrders and the two
\* placeOrder of the same token, made with TTL_EXPIRED
ReplacedAfter(i) ==
    LET made == CallsOfLastIteration
        Is(j, call, result) ==
            /\ j \in DOMAIN made
            /\ made[j].call = call
            /\ made[j].result = result
            /\ made[j].token_id = made[i].token_id
            /\ made[j].reason = "TTL_EXPIRED"
    IN  /\ Is(i + 1, "cancelAllOrders", "")
        /\ Is(i + 2, "placeOrder", "BUY")
        /\ Is(i + 3, "placeOrder", "SELL")

\* no order call follows position i before the next calculateQuotes
UntouchedAfter(i) ==
    LET made == CallsOfLastIteration
    IN  i + 1 \in DOMAIN made => made[i + 1].call = "calculateQuotes"

C28_ExpiredQuoteReplacesOrders ==
    \A i \in ExpiryQuotes : ReplacedAfter(i)

\* What does hold: the orders are replaced with TTL_EXPIRED unless an order
\* is resident at the new bid and another at the new ask; then they are
\* left as they are and only the active quote is refreshed.
ExpiredQuoteReplacesUnlessMatching ==
    \A i \in ExpiryQuotes :
        \/ ReplacedAfter(i)
        \/ /\ UntouchedAfter(i)
           /\ CallsOfLastIteration[i].token_id \in DOMAIN eng.active_quotes

\* T1's quote expired, the requote obtained a quote, and the resting pair
\* was neither cancelled nor replaced: the orders placed before the expiry
\* are still the resident ones
C28_ExpiredQuoteOrdersKept ==
    /\ \E i \in ExpiryQuotes :
          /\ CallsOfLastIteration[i].token_id = "T1"
          /\ UntouchedAfter(i)
          /\ ~ReplacedAfter(i)
    /\ \A x \in QuotingCalls : x.call \notin {"cancelAllOrders", "placeOrder"}
    /\ \E s \in SweepsOfLastIteration :
          /\ "T1" \in DueAt(s)
          /\ "T1" \in s.quoted
          /\ s.after["T1"].bid_price = s.active["T1"].bid_price
          /\ s.after["T1"].ask_price = s.active["T1"].ask_price
    /\ OpenOrdersOf("T1", "BUY") # {}
    /\ OpenOrdersOf("T1", "SELL") # {}
    /\ \A o \in getOpenOrders(eng.order_manager, "T1") : o.created_at < now

(***************************************************************************)
(* C29: on every book update, a BookSnapshot as well as a                  *)
(* PriceLevelUpdate, the adverse-selection monitor is advanced with the    *)
(* current mid, so every pending fill record of the token that is at least *)
(* 30 s old is assessed while that event is handled.                       *)
(***************************************************************************)
\* the fill records of a token that are 30 s old or older and not assessed
PendingAged(token_id) ==
    LET history == eng.as_manager.fill_history
    IN  IF token_id \notin DOMAIN history THEN {}
        ELSE {i \in DOMAIN history[token_id] :
                 /\ now - history[token_id][i].fill_time >= CaptureSeconds
                 /\ ~history[token_id][i].metrics_captured}

BookEventHandled(type) == last.op = "run" /\ last.type = type

C29_MonitorAdvancedOnEveryBookEvent ==
    (BookEventHandled("BOOK_SNAPSHOT") \/ BookEventHandled("PRICE_LEVEL_UPDATE"))
        => PendingAged(last.token_id) = {}

\* What does hold: a PriceLevelUpdate leaves no record of its token that is
\* 30 s old or older unassessed.
MonitorAdvancedOnPriceUpdate ==
    BookEventHandled("PRICE_LEVEL_UPDATE") => PendingAged(last.token_id) = {}

\* a PriceLevelUpdate of T1 was handled 30 s or more after a fill of T1 and
\* the fill's record is assessed
C29_PriceUpdateAssessed ==
    /\ BookEventHandled("PRICE_LEVEL_UPDATE")
    /\ last.token_id = "T1"
    /\ "T1" \in DOMAIN eng.as_manager.fill_history
    /\ \E i \in DOMAIN eng.as_manager.fill_history["T1"] :
          LET metrics == eng.as_manager.fill_history["T1"][i]
          IN  /\ now - metrics.fill_time >= CaptureSeconds
              /\ metrics.metrics_captured

\* a BookSnapshot of T1 was handled 30 s or more after a fill of T1 and the
\* fill's record is still pending
C29_SnapshotLeavesRecordPending ==
    /\ BookEventHandled("BOOK_SNAPSHOT")
    /\ last.token_id = "T1"
    /\ PendingAged("T1") # {}
    /\ hasValidBBO(eng.order_books["T1"])

(***************************************************************************)
(* C30: once the worker has dispatched a Shutdown event it leaves its loop *)
(* before the next housekeeping cycle: no expired-quote sweep, no position *)
(* snapshot and no multiplier decay happens after Shutdown was taken from  *)
(* the queue.  (The summary flush only logs and is not part of the state.) *)
(***************************************************************************)
ShutdownStep ==
    /\ eng.thread = "pop"
    /\ eng'.thread = "top"
    /\ QueueFront(eng.event_queue).type = "SHUTDOWN"

C30_NoHousekeepingAfterShutdown ==
    [][ ShutdownStep =>
           /\ last'.sweeps = <<>>
           /\ last'.calls = <<>>
           /\ eng'.last_quote_check = eng.last_quote_check
           /\ eng'.last_snapshot = eng.last_snapshot
           /\ eng'.state_file = eng.state_file
           /\ eng'.as_manager = eng.as_manager
           /\ eng'.order_manager = eng.order_manager
      ]_vars

\* What does hold: the iteration that dispatched Shutdown is the last one;
\* the loop test that follows it ends run() and no further event is popped.
ShutdownIterationIsLast ==
    [][ (last.op = "run" /\ last.type = "SHUTDOWN")
           => /\ ~eng.running
              /\ eng.thread \in {"top", "done", "joined"}
              /\ eng'.thread \in {"top", "done", "joined"}
              /\ eng'.event_queue = eng.event_queue
      ]_vars

\* the iteration that dispatched Shutdown swept the expired quote of T1,
\* requoted it with TTL_EXPIRED and saved the positions before run() ended
C30_HousekeepingAfterShutdown ==
    /\ last.op = "run"
    /\ last.type = "SHUTDOWN"
    /\ ~eng.running
    /\ \E i \in DOMAIN last.sweeps : last.sweeps[i].requoted = <<"T1">>
    /\ \E i \in DOMAIN last.calls :
          last.calls[i].call = "calculateQuotes" /\ last.calls[i].reason = "TTL_EXPIRED"
    /\ eng.last_quote_check = now
    /\ eng.last_snapshot = now
    /\ eng.state_file.exists
    /\ now > SnapshotSeconds

(***************************************************************************)
(* C31: Shutdown is terminal and drains cleanly: when the worker loop      *)
(* exits, the queue holds no event that was enqueued at or before the      *)
(* Shutdown event; every earlier event has been handled and the Shutdown   *)
(* event itself has been consumed, so none is left to stop a later         *)
(* start().  Under SpecStop the Shutdown event is the one stop() pushed    *)
(* and nothing is pushed after it, so the queue is empty at the exit.      *)
(***************************************************************************)
WorkerExited == eng.thread \in {"done", "joined"}

ShutdownsQueued == {i \in DOMAIN eng.event_queue : eng.event_queue[i].type = "SHUTDOWN"}

C31_QueueDrainedAtExit == WorkerExited => eng.event_queue = <<>>

\* What does hold: when the worker took the Shutdown event off the queue,
\* every event enqueued before it has been handled and the queue is empty.
DrainedWhenShutdownConsumed ==
    (WorkerExited /\ ShutdownsQueued = {}) => eng.event_queue = <<>>

\* stop() has returned after the join, the worker never popped the Shutdown
\* event stop() pushed, and a book event enqueued before it is unhandled
C31_ShutdownLeftInQueue ==
    /\ eng.thread = "joined"
    /\ eng.stop = "returned"
    /\ Len(eng.event_queue) >= 2
    /\ eng.event_queue[Len(eng.event_queue)].type = "SHUTDOWN"
    /\ eng.event_queue[1].type = "BOOK_SNAPSHOT"

(***************************************************************************)
(* C32: a fill is reflected in inventory before the token is quoted again: *)
(* between the moment the order manager emits a paper fill for a token and *)
(* the moment the engine handles the corresponding OrderFill event, no     *)
(* quote is generated and no order is placed for that token.               *)
(***************************************************************************)
\* the tokens with an OrderFill event emitted and not yet handled
PendingFillTokens ==
    {eng.event_queue[i].token_id :
        i \in {j \in DOMAIN eng.event_queue : eng.event_queue[j].type = "ORDER_FILL"}}

\* Every fill pending when an iteration ends was pending when it began or
\* was emitted by updateOrderBook, which handleBookSnapshot calls before
\* calculateQuotes: the iteration's quotes and orders come after the emit.
C32_NoQuoteWhileFillPending ==
    \A x \in QuotingCalls : x.token_id \notin PendingFillTokens

\* What does hold: the iteration that handles an OrderFill event updates
\* position and inventory first and requotes the token afterwards.
FillHandledBeforeItsRequote ==
    (last.op = "run" /\ last.type = "ORDER_FILL") =>
        /\ eng.total_fills > 0
        /\ last.token_id \in DOMAIN eng.positions
        /\ last.calls # <<>>
        /\ last.calls[1].call = "calculateQuotes"
        /\ last.calls[1].token_id = last.token_id

\* the snapshot that filled T1's resting buy order also quoted T1 and placed
\* a new pair while the OrderFill event waits in the queue: the maker's
\* inventory was still zero when the quote was generated
C32_QuotedBeforeFillHandled ==
    /\ last.op = "run"
    /\ last.type = "BOOK_SNAPSHOT"
    /\ last.token_id = "T1"
    /\ "T1" \in PendingFillTokens
    /\ \E x \in QuotingCalls : x.call = "generateQuote" /\ x.token_id = "T1"
    /\ \E x \in QuotingCalls : x.call = "placeOrder" /\ x.token_id = "T1"
    /\ eng.market_makers["T1"].inventory = RZero
    /\ eng.total_fills = 0

(***************************************************************************)
(* C33: an order's status only ever moves OPEN -> FILLED or OPEN ->        *)
(* CANCELLED: under any sequence of place, book-update, cancel and         *)
(* cancel_all operations, an order that has been FILLED is never           *)
(* afterwards marked or audit-logged as CANCELLED, and a CANCELLED order   *)
(* is never filled.  cancelOrder is the only code that removes an order    *)
(* from orders_, and it marks the order CANCELLED and logs the             *)
(* cancellation before it erases it: a FILLED order that leaves orders_    *)
(* was marked and logged as CANCELLED.                                     *)
(***************************************************************************)
OrdersWithStatus(manager, status) ==
    {id \in DOMAIN manager.orders : manager.orders[id].status = status}

FilledStaysFilled(before, after) ==
    \A id \in OrdersWithStatus(before, "FILLED") :
        id \in DOMAIN after.orders /\ after.orders[id].status = "FILLED"

CancelledNeverFilled(before, after) ==
    \A id \in OrdersWithStatus(before, "CANCELLED") :
        id \in DOMAIN after.orders =>
            /\ after.orders[id].status = "CANCELLED"
            /\ after.orders[id].filled_size = before.orders[id].filled_size

C33_StatusOnlyLeavesOpen ==
    [][FilledStaysFilled(om, om') /\ CancelledNeverFilled(om, om')]_vars

\* What does hold: a CANCELLED order is never filled, and no order that has
\* left OPEN returns to it.
CancelledNeverFilledNorReopened ==
    [][ /\ CancelledNeverFilled(om, om')
        /\ \A id \in DOMAIN om.orders \cap DOMAIN om'.orders :
              om.orders[id].status # "OPEN" => om'.orders[id].status # "OPEN"
      ]_vars

\* a resident order is CANCELLED and carries the fill that had made it
\* FILLED: it was filled in paper mode and cancelled afterwards
C33_FilledOrderCancelled ==
    \E id \in OrdersWithStatus(om, "CANCELLED") :
        /\ om.orders[id].filled_size = om.orders[id].size
        /\ om.trading_mode = "LIVE"

(***************************************************************************)
(* C34: each order produces at most one OrderFill event over its lifetime, *)
(* for any sequence of book updates, including repeated books that keep    *)
(* crossing the order's price.  Stated step by step: a book update emits   *)
(* at most one event per order and only for an order that has not been     *)
(* filled, the fill leaves it with filled_size = size > 0, a resident      *)
(* order's filled_size never goes down, and order ids are never reused.    *)
(***************************************************************************)
FillsOfStep == IF last'.op = "updateOrderBook" /\ om' # om THEN last'.fills ELSE <<>>

C34_AtMostOneFillPerOrder ==
    [][ /\ \A i \in DOMAIN FillsOfStep :
              LET id == FillsOfStep[i].order_id
              IN  /\ id \in DOMAIN om.orders
                  /\ om.orders[id].filled_size = RZero
                  /\ id \in DOMAIN om'.orders
                  /\ om'.orders[id].filled_size = om.orders[id].size
                  /\ RGt(om'.orders[id].filled_size, RZero)
                  /\ \A k \in DOMAIN FillsOfStep : FillsOfStep[k].order_id = id => k = i
        /\ \A id \in DOMAIN om.orders \cap DOMAIN om'.orders :
              RGe(om'.orders[id].filled_size, om.orders[id].filled_size)
        /\ \A id \in DOMAIN om'.orders \ DOMAIN om.orders :
              /\ id = om.next_order_id
              /\ \A old \in DOMAIN om.orders : old < id
        /\ om'.next_order_id >= om.next_order_id
      ]_vars

\* a paper-mode book update that crosses the price of an order filled
\* earlier emitted no event for it
C34_Witness ==
    /\ last.op = "updateOrderBook"
    /\ last.mode = "PAPER"
    /\ last.fills = <<>>
    /\ \E id \in DOMAIN om.orders :
          /\ om.orders[id].token_id = last.token
          /\ om.orders[id].status = "FILLED"
          /\ om.orders[id].filled_size = om.orders[id].size
          /\ ShouldFill(om.orders[id], last.book)

(***************************************************************************)
(* C35: every order returned by get_open_orders(token) has status OPEN,    *)
(* and the open, bid and ask counts count only OPEN orders, after any      *)
(* sequence of places, fills and cancels.                                  *)
(***************************************************************************)
OpenIds(manager) == OrdersWithStatus(manager, "OPEN")

C35_OpenOrdersAndCountsAreOpenOnly ==
    /\ \A token_id \in Tokens :
          \A o \in getOpenOrders(om, token_id) : o.status = "OPEN"
    /\ getOpenOrderCount(om) = Cardinality(OpenIds(om))
    /\ getBidCount(om) =
          Cardinality({id \in OpenIds(om) : om.orders[id].side = "BUY"})
    /\ getAskCount(om) =
          Cardinality({id \in OpenIds(om) : om.orders[id].side = "SELL"})

\* What does hold: every OPEN order of a token is among the orders returned
\* for it, every returned order is of that token, and the bid and ask counts
\* add up to the open count, which is never below the number of OPEN orders.
OpenOrdersAreReturnedAndCounted ==
    /\ \A id \in OpenIds(om) :
          om.orders[id] \in getOpenOrders(om, om.orders[id].token_id)
    /\ \A token_id \in Tokens :
          \A o \in getOpenOrders(om, token_id) : o.token_id = token_id
    /\ getBidCount(om) + getAskCount(om) = getOpenOrderCount(om)
    /\ getOpenOrderCount(om) >= Cardinality(OpenIds(om))

\* in paper mode an order of T1 filled by a book update is still returned
\* by getOpenOrders("T1") and counted, while no order is OPEN
C35_FilledOrderReturnedAndCounted ==
    /\ om.trading_mode = "PAPER"
    /\ OpenIds(om) = {}
    /\ getOpenOrderCount(om) = 1
    /\ getBidCount(om) = 1
    /\ \E o \in getOpenOrders(om, "T1") : o.status = "FILLED" /\ o.side = "BUY"

(***************************************************************************)
(* C36: a market maker whose inventory changes only through paper fills of *)
(* orders the engine placed from its own quotes never holds |inventory|    *)
(* greater than max_position, for any sequence of book events.             *)
(***************************************************************************)
WithinMaxPosition(maker) == RLe(RAbs(maker.inventory), maker.max_position)

C36_InventoryWithinMaxPosition ==
    \A k \in DOMAIN eng.market_makers : WithinMaxPosition(eng.market_makers[k])

\* What does hold: a quote is generated only while |inventory| is below
\* max_position, and the inventory never exceeds max_position by more than
\* the size of one order.
QuotedOnlyBelowMaxPosition ==
    /\ \A x \in QuotingCalls :
          x.call = "generateQuote" =>
             RLt(RAbs(eng.market_makers[x.token_id].inventory),
                 eng.market_makers[x.token_id].max_position)
    /\ \A k \in DOMAIN eng.market_makers :
          RLe(RAbs(eng.market_makers[k].inventory),
              RAdd(eng.market_makers[k].max_position, MaxQuoteSize))

\* eleven buy orders of 100 placed from the maker's own quotes were filled
\* one after the other: the maker of T1 holds 1100 with max_position 1000
C36_InventoryAboveMaxPosition ==
    /\ "T1" \in DOMAIN eng.market_makers
    /\ eng.market_makers["T1"].max_position = DefaultMaxPosition
    /\ eng.market_makers["T1"].inventory = RInt(1100)
    /\ eng.positions["T1"].quantity = RInt(1100)
    /\ eng.total_fills = 11
    /\ last.op = "run"
    /\ last.type = "ORDER_FILL"

(***************************************************************************)
(* C37: the two ledgers the engine keeps per token stay in agreement:      *)
(* after the engine has handled any sequence of OrderFill events for a     *)
(* token with a market maker, starting flat, the maker's inventory equals  *)
(* the position's quantity and the maker's realized PnL equals the         *)
(* position's realized PnL.                                                *)
(***************************************************************************)
\* the position the engine holds for a token, a flat one when it has none
PositionOf(token_id) ==
    IF token_id \in DOMAIN eng.positions THEN eng.positions[token_id] ELSE NewPosition

QuantitiesAgree(token_id) ==
    eng.market_makers[token_id].inventory = PositionOf(token_id).quantity

RealizedAgree(token_id) ==
    eng.market_makers[token_id].realized_pnl = PositionOf(token_id).realized_pnl

C37_LedgersAgree ==
    \A k \in DOMAIN eng.market_makers : QuantitiesAgree(k) /\ RealizedAgree(k)

\* What does hold: the maker's inventory equals the position's quantity.
LedgerQuantitiesAgree ==
    \A k \in DOMAIN eng.market_makers : QuantitiesAgree(k)

\* T1 was sold short and bought back: both ledgers are flat again, the
\* position has realized the difference and the maker has realized nothing
C37_ShortCoverRealizedOnlyInPosition ==
    /\ "T1" \in DOMAIN eng.market_makers
    /\ "T1" \in DOMAIN eng.positions
    /\ eng.total_fills = 2
    /\ eng.market_makers["T1"].inventory = RZero
    /\ eng.positions["T1"].quantity = RZero
    /\ eng.market_makers["T1"].realized_pnl = RZero
    /\ eng.positions["T1"].realized_pnl # RZero

(***************************************************************************)
(* C38: while the engine is running, every active quote whose TTL has      *)
(* elapsed is eventually requoted even if no producer pushes another       *)
(* event: the expired-quote sweep keeps running at its one-second cadence  *)
(* when the queue stays empty.                                             *)
(***************************************************************************)
ExpiredActive(token_id) ==
    /\ token_id \in DOMAIN eng.active_quotes
    /\ isExpired(eng.active_quotes[token_id], now)

\* the last iteration ran a sweep that requoted the token for its expiry
RequotedForExpiry(token_id) ==
    \E s \in SweepsOfLastIteration :
        \E i \in DOMAIN s.requoted : s.requoted[i] = token_id

C38_ExpiredQuoteEventuallyRequoted ==
    \A k \in TradableTokens :
        (eng.running /\ ExpiredActive(k))
            ~> (RequotedForExpiry(k) \/ ~ExpiredActive(k) \/ ~eng.running)

\* What does hold: the time of the last quote check moves only in a step
\* that handles an event popped from the queue (and in start()); the sweep
\* never runs on its own.
SweepOnlyWithAnEvent ==
    [][ eng'.last_quote_check # eng.last_quote_check =>
           \/ eng.thread = "unstarted"
           \/ eng.thread = "pop" /\ eng.event_queue # <<>>
      ]_vars

\* the worker is blocked in pop() on an empty queue while the engine runs,
\* the quote of T1 has expired and the last quote check is more than a
\* second old
C38_ExpiredWhileBlockedInPop ==
    /\ eng.running
    /\ eng.thread = "pop"
    /\ eng.event_queue = <<>>
    /\ ExpiredActive("T1")
    /\ now - eng.last_quote_check > QuoteCheckSeconds

(***************************************************************************)
(* C39: when stop() returns, the persisted state file holds, for every     *)
(* token, the position quantity, average cost and realized PnL that result *)
(* from all fills the engine handled before stopping, so a restart         *)
(* continues from the positions the engine ended with.                     *)
(***************************************************************************)
\* the file, read back as the next start would read it, holds the positions
\* the engine e has
FileHoldsPositions(e) ==
    LET saved == loadState(e.state_file).positions
    IN  \A k \in DOMAIN e.positions :
           /\ k \in DOMAIN saved
           /\ saved[k].quantity = e.positions[k].quantity
           /\ saved[k].avg_cost = e.positions[k].avg_entry_price
           /\ saved[k].realized_pnl = e.positions[k].realized_pnl

C39_StateFileCurrentWhenStopReturns ==
    eng.stop = "returned" => FileHoldsPositions(eng)

\* What does hold: the file is written only by the housekeeping of an
\* iteration that finds the last snapshot more than 60 s old, and right
\* after that write it holds the positions the engine has.
FileCurrentAfterPeriodicSnapshot ==
    [][ eng'.state_file # eng.state_file =>
           /\ now - eng.last_snapshot > SnapshotSeconds
           /\ eng'.last_snapshot = now
           /\ FileHoldsPositions(eng')
      ]_vars

\* stop() has returned after the join; the file was written by a periodic
\* snapshot before the fill of T1 was handled and does not hold T1's
\* position
C39_FillsAfterLastSnapshotLost ==
    /\ eng.stop = "returned"
    /\ eng.thread = "joined"
    /\ eng.state_file.exists
    /\ eng.total_fills > 0
    /\ "T1" \in DOMAIN eng.positions
    /\ eng.positions["T1"].quantity # RZero
    /\ "T1" \notin DOMAIN loadState(eng.state_file).positions

(***************************************************************************)
(* C40: fill quality is assessed only against a valid mid: a book update   *)
(* that leaves the token without a valid BBO (mid reported as 0) never     *)
(* records a price move, never marks a fill toxic and never changes the    *)
(* stored spread multiplier.  (The decay of the 60 s housekeeping of the   *)
(* same iteration is not counted as a change by the book update.)          *)
(***************************************************************************)
\* the step handles a book event and leaves its token without a valid BBO
BookUpdateLeavesNoBBO ==
    /\ last'.op = "run"
    /\ last'.type \in {"BOOK_SNAPSHOT", "PRICE_LEVEL_UPDATE"}
    /\ last'.token_id \in DOMAIN eng'.order_books
    /\ ~hasValidBBO(eng'.order_books[last'.token_id])

C40_NoAssessmentWithoutValidMid ==
    [][ BookUpdateLeavesNoBBO =>
           /\ eng'.as_manager.fill_history = eng.as_manager.fill_history
           /\ eng'.as_manager.spread_multipliers
                 \in {eng.as_manager.spread_multipliers,
                      decay(eng.as_manager).spread_multipliers}
      ]_vars

\* What does hold: a PriceLevelUpdate that leaves its token without a valid
\* BBO assesses the token's fills against a mid of 0: every record that is
\* 30 s old or older and unassessed is assessed with a move of the whole
\* price, -1 for a buy (toxic) and +1 for a sell; a BookSnapshot that leaves
\* no valid BBO changes no record.
AssessedAgainstZeroWithoutValidMid ==
    [][ BookUpdateLeavesNoBBO =>
           LET token_id == last'.token_id
               before == eng.as_manager.fill_history
               after == eng'.as_manager.fill_history
           IN  IF last'.type = "BOOK_SNAPSHOT" \/ token_id \notin DOMAIN before
               THEN after = before
               ELSE /\ Len(after[token_id]) = Len(before[token_id])
                    /\ \A i \in DOMAIN before[token_id] :
                          LET m0 == before[token_id][i]
                              m1 == after[token_id][i]
                          IN  IF m0.metrics_captured THEN m1 = m0
                              ELSE IF now - m0.fill_time >= CaptureSeconds
                              THEN /\ m1.metrics_captured
                                   /\ m1.price_move_30s
                                         = IF m0.side = "BUY" THEN RInt(-1) ELSE RInt(1)
                                   /\ m1.is_toxic = (m0.side = "BUY")
                              ELSE ~m1.metrics_captured
      ]_vars

\* a PriceLevelUpdate left T1 without a valid BBO and the buy fill of T1 is
\* marked toxic with a move of -1, the stored multiplier of T1 set by it
C40_FillMarkedToxicAgainstZeroMid ==
    /\ BookEventHandled("PRICE_LEVEL_UPDATE")
    /\ last.token_id = "T1"
    /\ ~hasValidBBO(eng.order_books["T1"])
    /\ "T1" \in DOMAIN eng.as_manager.fill_history
    /\ \E i \in DOMAIN eng.as_manager.fill_history["T1"] :
          LET metrics == eng.as_manager.fill_history["T1"][i]
          IN  /\ metrics.side = "BUY"
              /\ metrics.mid_at_fill = R(51, 100)
              /\ metrics.is_toxic
              /\ metrics.price_move_30s = RInt(-1)
    /\ "T1" \in DOMAIN eng.as_manager.spread_multipliers

=============================================================================
